---- MODULE Spec2Model ----
(***************************************************************************)
(* A model of LiteFinPad's analytics, archive mode, expense-table sync and *)
(* settings persistence.                                                   *)
(*                                                                         *)
(* Representation.                                                         *)
(*  - A date string "YYYY-MM-DD" is the record [Y, M, D] of its three      *)
(*    numeric fields; the fields need not form a calendar date.            *)
(*  - A datetime is the record [year, month, day, hour]; hour stands for   *)
(*    the time of day.                                                     *)
(*  - An amount is an integer; a quotient of amounts is the reduced        *)
(*    fraction <<numerator, denominator>>.                                 *)
(*  - None is the record [tag |-> "None"].                                 *)
(***************************************************************************)
EXTENDS Integers, Sequences, FiniteSets, TLC

VARIABLES
    now,            \* the system clock, datetime.now()
    expenses,       \* analytics: the expense list handed to the calculations
    a_op,           \* analytics: the calculation applied last
    a_in,           \* analytics: its date arguments
    a_out,          \* analytics: its result
    t_fs,           \* trend: the expenses.json file of each data folder
    t_op,           \* trend: "trend" once calculate_monthly_trend was called
    t_in,           \* trend: its arguments
    t_out,          \* trend: its result and the file it looked for
    table,          \* expense list page: the table manager's expense objects
    tr_expenses,    \* expense_tracker.expenses
    tr_monthly_total, \* expense_tracker.monthly_total
    disk,           \* what expense_tracker.save_data() wrote last
    prev_count,     \* _previous_expense_count[0]
    status,         \* the message on_expense_change handed to the status bar last
    ui_log,         \* the calls on_expense_change made last, in order
    tr_current_month, \* expense_tracker.current_month
    tr_viewed_month,  \* expense_tracker.viewed_month
    tr_viewing_mode,  \* expense_tracker.viewing_mode
    add_btn,        \* state of the "+ Add Expense" button
    quick_add,      \* whether the Quick Add section is enabled
    ar_last,        \* archive mode: the operation that ran last
    ar_ctx,         \* archive mode: the last context date and day progress
    days_run,       \* days the clock has advanced since the start
    page,           \* the page the page manager shows
    ar_calls,       \* archive mode: the calls refresh_ui made last, in order
    s_config,       \* settings: the ConfigParser in memory
    s_file,         \* settings: the settings file on disk
    s_temp,         \* settings: the temp file of the save under way
    s_step,         \* settings: the step of a save taken last
    s_ret,          \* settings: what the last save returned
    s_prev,         \* settings: the settings file as the last save found it
    s_new,          \* settings: what the last save set out to write
    s_failed,       \* settings: the saves that have failed in a sequence of calls
    al_call,        \* settings calls: the call made last, with its arguments
    al_ret,         \* settings calls: what that call returned
    al_before,      \* settings calls: the configuration and file before it
    al_count,       \* settings calls: the calls made so far
    th_lock,        \* threads: the holder of SettingsManager._lock (0: free)
    th_pc,          \* threads: where each thread is in its call
    th_op,          \* threads: the call each thread is making
    th_ret,         \* threads: what each thread's last call returned
    th_temp,        \* threads: the temp file of each thread's save
    th_calls,       \* threads: the number of calls each thread has made
    g_instance,     \* singleton: the module's _settings_instance (0: None)
    g_built,        \* singleton: the number of SettingsManager objects built
    g_pc,           \* singleton: where each thread is in get_settings_manager
    g_new,          \* singleton: the object each thread has just built
    g_ret,          \* singleton: what each thread's calls returned, in order
    sb_label,       \* status bar: the label's text (None: no label yet)
    sb_timer,       \* status bar: status_clear_timer (0: None)
    sb_after,       \* status bar: the callbacks Tk has scheduled
    sb_ids,         \* status bar: the number of after ids handed out
    sb_age,         \* status bar: the time since the last show
    sb_calls,       \* status bar: the number of show and clear calls made
    sb_last,        \* status bar: what ran last
    dh_file,        \* description history: the history file
    dh_descriptions, \* description history: self.descriptions
    dh_state,       \* description history: how far the object has got
    dh_out          \* description history: the result of the last call

analyticsVars == <<expenses, a_op, a_in, a_out>>
trendVars == <<t_fs, t_op, t_in, t_out>>
tableVars == <<table, tr_expenses, tr_monthly_total, disk, prev_count, status, ui_log>>
archiveVars == <<tr_current_month, tr_viewed_month, tr_viewing_mode, add_btn, quick_add,
                 ar_last, ar_ctx, days_run, page, ar_calls>>

settingsVars == <<s_config, s_file, s_temp, s_step, s_ret, s_prev, s_new, s_failed>>

callVars == <<al_call, al_ret, al_before, al_count>>
threadVars == <<th_lock, th_pc, th_op, th_ret, th_temp, th_calls>>
singletonVars == <<g_instance, g_built, g_pc, g_new, g_ret>>
statusVars == <<sb_label, sb_timer, sb_after, sb_ids, sb_age, sb_calls, sb_last>>
historyVars == <<dh_file, dh_descriptions, dh_state, dh_out>>
otherVars == <<callVars, threadVars, singletonVars, statusVars, historyVars>>

vars == <<now, analyticsVars, trendVars, tableVars, archiveVars, settingsVars, otherVars>>

None == [tag |-> "None"]

\* The analytics part with no call made.
IdleAnalytics ==
    /\ expenses = <<>>
    /\ a_op = "none"
    /\ a_in = [start_date |-> None, end_date |-> None, current_date |-> None]
    /\ a_out = <<>>

\* The expense list page over an empty month.
IdleTable ==
    /\ table = <<>>
    /\ tr_expenses = <<>>
    /\ tr_monthly_total = 0
    /\ disk = [expenses |-> <<>>, monthly_total |-> 0]
    /\ prev_count = 0
    /\ status = "none"
    /\ ui_log = <<>>

\* The tracker viewing the month of the clock, the add controls enabled.
IdleArchive ==
    /\ tr_current_month = [Y |-> now.year, M |-> now.month]
    /\ tr_viewed_month = [Y |-> now.year, M |-> now.month]
    /\ tr_viewing_mode = "current"
    /\ add_btn = "normal"
    /\ quick_add = TRUE
    /\ ar_last = "none"
    /\ ar_ctx = None
    /\ days_run = 0
    /\ page = "main"
    /\ ar_calls = <<>>

\* The settings manager over no settings file, nothing set.
IdleSettings ==
    /\ s_config = <<>>
    /\ s_file = [exists |-> FALSE, lines |-> <<>>]
    /\ s_temp = [exists |-> FALSE, lines |-> <<>>]
    /\ s_step = "none"
    /\ s_ret = "none"
    /\ s_prev = [exists |-> FALSE, lines |-> <<>>]
    /\ s_new = <<>>
    /\ s_failed = 0

\* The threads that use the settings manager.
Threads == {1, 2}

\* No call made on the settings manager.
IdleCalls ==
    /\ al_call = [op |-> "none"]
    /\ al_ret = [tag |-> "None"]
    /\ al_before = [tag |-> "None"]
    /\ al_count = 0

\* No thread inside the settings manager, the lock free.
IdleThreads ==
    /\ th_lock = 0
    /\ th_pc = [t \in Threads |-> "idle"]
    /\ th_op = [t \in Threads |-> [op |-> "none"]]
    /\ th_ret = [t \in Threads |-> "none"]
    /\ th_temp = [t \in Threads |-> [exists |-> FALSE, lines |-> <<>>]]
    /\ th_calls = [t \in Threads |-> 0]

\* The module just imported: no settings manager built.
IdleSingleton ==
    /\ g_instance = 0
    /\ g_built = 0
    /\ g_pc = [t \in Threads |-> "idle"]
    /\ g_new = [t \in Threads |-> 0]
    /\ g_ret = [t \in Threads |-> <<>>]

\* The status bar manager just constructed: no label, no timer.
IdleStatus ==
    /\ sb_label = [tag |-> "None"]
    /\ sb_timer = 0
    /\ sb_after = {}
    /\ sb_ids = 0
    /\ sb_age = 0
    /\ sb_calls = 0
    /\ sb_last = "none"

\* No description history object, no history file.
IdleHistory ==
    /\ dh_file = [kind |-> "missing"]
    /\ dh_descriptions = [list |-> <<>>]
    /\ dh_state = "none"
    /\ dh_out = [call |-> "none", raised |-> "none"]

IdleOthers == IdleCalls /\ IdleThreads /\ IdleSingleton /\ IdleStatus /\ IdleHistory

\* The trend part with no call made and no data folder on disk.
IdleTrend ==
    /\ t_fs = <<>>
    /\ t_op = "none"
    /\ t_in = None
    /\ t_out = None

\* ------------------------------------------------------------------ bounds

\* Longest expense list.
MaxLen == 3

\* ---------------------------------------------------------------- calendar

IsLeap(y) == y % 4 = 0 /\ (y % 100 # 0 \/ y % 400 = 0)

DaysInMonth(y, m) ==
    IF m = 2 THEN (IF IsLeap(y) THEN 29 ELSE 28)
    ELSE IF m \in {4, 6, 9, 11} THEN 30 ELSE 31

DaysBeforeYear(y) ==
    (y - 1) * 365 + (y - 1) \div 4 - (y - 1) \div 100 + (y - 1) \div 400

DaysBeforeMonth(y, m) ==
    <<0, 31, 59, 90, 120, 151, 181, 212, 243, 273, 304, 334>>[m]
        + (IF m > 2 /\ IsLeap(y) THEN 1 ELSE 0)

\* datetime.toordinal(): 0001-01-01 is day 1.
toordinal(dt) == DaysBeforeYear(dt.year) + DaysBeforeMonth(dt.year, dt.month) + dt.day

\* datetime.weekday(): Monday is 0.
weekday(dt) == (toordinal(dt) + 6) % 7

\* datetime.date(): the calendar date, the time of day dropped.
date(dt) == <<dt.year, dt.month, dt.day>>

\* date.__lt__
DateLT(a, b) ==
    \/ a[1] < b[1]
    \/ a[1] = b[1] /\ a[2] < b[2]
    \/ a[1] = b[1] /\ a[2] = b[2] /\ a[3] < b[3]

\* datetime.replace(day=d)
replace_day(dt, d) == [dt EXCEPT !.day = d]

\* dt - timedelta(days=n); the time of day is kept.
RECURSIVE MinusDays(_, _)
MinusDays(dt, n) ==
    IF n = 0 THEN dt
    ELSE IF dt.day > 1 THEN MinusDays([dt EXCEPT !.day = dt.day - 1], n - 1)
    ELSE IF dt.month > 1
        THEN MinusDays([dt EXCEPT !.month = dt.month - 1,
                                  !.day = DaysInMonth(dt.year, dt.month - 1)], n - 1)
    ELSE MinusDays([dt EXCEPT !.year = dt.year - 1, !.month = 12, !.day = 31], n - 1)

\* dt + timedelta(days=n)
RECURSIVE PlusDays(_, _)
PlusDays(dt, n) ==
    IF n = 0 THEN dt
    ELSE IF dt.day < DaysInMonth(dt.year, dt.month)
        THEN PlusDays([dt EXCEPT !.day = dt.day + 1], n - 1)
    ELSE IF dt.month < 12
        THEN PlusDays([dt EXCEPT !.month = dt.month + 1, !.day = 1], n - 1)
    ELSE PlusDays([dt EXCEPT !.year = dt.year + 1, !.month = 1, !.day = 1], n - 1)

\* (a - b).days for two datetimes with the same time of day.
DaysBetween(a, b) == toordinal(a) - toordinal(b)

\* -------------------------------------------------------------- date_utils

\* parse_date without the check of the day against the month's length.
parse_date_any_day(date_str) ==
    IF date_str.M \in 1..12 /\ date_str.Y \in 1..9999 /\ date_str.D \in 1..31
    THEN [year |-> date_str.Y, month |-> date_str.M, day |-> date_str.D, hour |-> 0]
    ELSE [tag |-> "None"]

\* DateUtils.parse_date: datetime.strptime(date_str, "%Y-%m-%d"), None on
\* ValueError.  The parsed datetime is at midnight.
parse_date(date_str) ==
    IF /\ date_str.M \in 1..12
       /\ date_str.Y \in 1..9999
       /\ date_str.D \in 1..DaysInMonth(date_str.Y, date_str.M)
    THEN [year |-> date_str.Y, month |-> date_str.M, day |-> date_str.D, hour |-> 0]
    ELSE None

\* --------------------------------------------------------------- arithmetic

RECURSIVE GCD(_, _)
GCD(a, b) == IF b = 0 THEN a ELSE GCD(b, a % b)

Abs(x) == IF x < 0 THEN -x ELSE x

\* The quotient n / d (d > 0) as a reduced fraction.
Quot(n, d) ==
    LET g == GCD(Abs(n), d) IN <<n \div g, d \div g>>

RECURSIVE SumAmounts(_)
SumAmounts(s) == IF s = <<>> THEN 0 ELSE Head(s).amount + SumAmounts(Tail(s))

\* ---------------------------------------------------------------- analytics

\* _filter_expenses_by_date_range with the end of the range exclusive.
_filter_expenses_by_date_range_open_end(exps, start_date, end_date, current_date) ==
    LET cur == IF current_date = None THEN now ELSE current_date
        Keep(expense) ==
            LET dt == parse_date(expense.date) IN
            IF dt = None THEN FALSE
            ELSE IF start_date # None /\ DateLT(date(dt), date(start_date)) THEN FALSE
            ELSE IF end_date # None THEN DateLT(date(dt), date(end_date))
            ELSE DateLT(date(dt), date(cur))
    IN  SelectSeq(exps, Keep)

\* ExpenseAnalytics._filter_expenses_by_date_range
_filter_expenses_by_date_range(exps, start_date, end_date, current_date) ==
    LET cur == IF current_date = None THEN now ELSE current_date
        Keep(expense) ==
            LET dt == parse_date(expense.date) IN
            IF dt = None THEN FALSE
            ELSE IF start_date # None /\ DateLT(date(dt), date(start_date)) THEN FALSE
            ELSE IF end_date # None THEN ~DateLT(date(end_date), date(dt))
            ELSE ~DateLT(date(cur), date(dt))
    IN  SelectSeq(exps, Keep)

\* ExpenseAnalytics._filter_expenses_by_month
_filter_expenses_by_month(exps, month_date, exclude_future) ==
    LET month_start == replace_day(month_date, 1)
        month_end ==
            IF month_date.month = 12
            THEN MinusDays([month_date EXCEPT !.year = month_date.year + 1,
                                              !.month = 1, !.day = 1], 1)
            ELSE MinusDays([month_date EXCEPT !.month = month_date.month + 1,
                                              !.day = 1], 1)
        end_date == IF exclude_future THEN month_date ELSE month_end
    IN  _filter_expenses_by_date_range(exps, month_start, end_date, month_date)

\* ExpenseAnalytics._filter_expenses_by_week
_filter_expenses_by_week(exps, week_date, exclude_future) ==
    LET week_start == MinusDays(week_date, weekday(week_date))
        week_end == PlusDays(week_start, 6)
        end_date == IF exclude_future THEN week_date ELSE week_end
    IN  _filter_expenses_by_date_range(exps, week_start, end_date, week_date)

\* ExpenseAnalytics._filter_past_expenses
_filter_past_expenses(exps, current_date) ==
    LET cur == IF current_date = None THEN now ELSE current_date
    IN  _filter_expenses_by_date_range(exps, None, cur, cur)

\* ExpenseAnalytics.calculate_day_progress
calculate_day_progress(current_date) ==
    LET cur == IF current_date = None THEN now ELSE current_date
    IN  <<cur.day, DaysInMonth(cur.year, cur.month)>>

\* ExpenseAnalytics.calculate_daily_average
calculate_daily_average(exps, current_date) ==
    IF exps = <<>> THEN <<Quot(0, 1), 0>>
    ELSE
        LET cur == IF current_date = None THEN now ELSE current_date
            month_expenses == _filter_expenses_by_month(exps, cur, TRUE)
            monthly_total == SumAmounts(month_expenses)
            days_elapsed == cur.day
        IN  <<IF days_elapsed > 0 THEN Quot(monthly_total, days_elapsed) ELSE Quot(0, 1),
              days_elapsed>>

\* ExpenseAnalytics.calculate_weekly_average
calculate_weekly_average(exps, current_date) ==
    IF exps = <<>> THEN <<Quot(0, 1), 0>>
    ELSE
        LET cur == IF current_date = None THEN now ELSE current_date
            month_expenses == _filter_expenses_by_month(exps, cur, TRUE)
            monthly_total == SumAmounts(month_expenses)
            weeks_elapsed == ((cur.day - 1) \div 7) + 1
        IN  <<IF weeks_elapsed > 0 THEN Quot(monthly_total, weeks_elapsed) ELSE Quot(0, 1),
              weeks_elapsed>>

\* ExpenseAnalytics.calculate_weekly_pace
calculate_weekly_pace(exps, current_date) ==
    IF exps = <<>> THEN <<Quot(0, 1), 0>>
    ELSE
        LET cur == IF current_date = None THEN now ELSE current_date
            week_expenses == _filter_expenses_by_week(exps, cur, TRUE)
            weekly_total == SumAmounts(week_expenses)
            week_start == MinusDays(cur, weekday(cur))
            days_elapsed == DaysBetween(cur, week_start) + 1
        IN  <<IF days_elapsed > 0 THEN Quot(weekly_total, days_elapsed) ELSE Quot(0, 1),
              days_elapsed>>

\* sorted(): insertion of x into an ascending sequence, after its equals.
RECURSIVE InsertSorted(_, _)
InsertSorted(s, x) ==
    IF s = <<>> THEN <<x>>
    ELSE IF x < Head(s) THEN <<x>> \o s
    ELSE <<Head(s)>> \o InsertSorted(Tail(s), x)

RECURSIVE sorted(_)
sorted(s) == IF s = <<>> THEN <<>> ELSE InsertSorted(sorted(SubSeq(s, 1, Len(s) - 1)), s[Len(s)])

Amounts(s) == [i \in 1..Len(s) |-> s[i].amount]

\* A median that takes the upper of the two middle values of an even count.
calculate_median_expense_upper_middle(exps, current_date) ==
    LET cur == IF current_date = None THEN now ELSE current_date
        past_expenses == _filter_past_expenses(exps, cur)
    IN  IF past_expenses = <<>> THEN <<Quot(0, 1), 0>>
        ELSE LET amounts == sorted(Amounts(past_expenses))
                 count == Len(amounts)
             IN  <<Quot(amounts[count \div 2 + 1], 1), count>>

\* ExpenseAnalytics.calculate_median_expense
calculate_median_expense(exps, current_date) ==
    LET cur == IF current_date = None THEN now ELSE current_date
        past_expenses == _filter_past_expenses(exps, cur)
    IN  IF past_expenses = <<>> THEN <<Quot(0, 1), 0>>
        ELSE
            LET amounts == sorted(Amounts(past_expenses))
                count == Len(amounts)
            IN  IF count % 2 = 0
                THEN <<Quot(amounts[count \div 2] + amounts[count \div 2 + 1], 2), count>>
                ELSE <<Quot(amounts[count \div 2 + 1], 1), count>>

\* max(past_expenses, key=amount): the first record with the largest amount.
MaxByAmount(s) ==
    LET i == CHOOSE i \in 1..Len(s) :
                /\ \A j \in 1..Len(s) : s[j].amount <= s[i].amount
                /\ \A j \in 1..(i - 1) : s[j].amount < s[i].amount
    IN  s[i]

\* ExpenseAnalytics.calculate_largest_expense
calculate_largest_expense(exps, current_date) ==
    LET cur == IF current_date = None THEN now ELSE current_date
        past_expenses == _filter_past_expenses(exps, cur)
    IN  IF past_expenses = <<>> THEN <<Quot(0, 1), "No expenses">>
        ELSE LET largest == MaxByAmount(past_expenses)
             IN  <<Quot(largest.amount, 1), largest.description>>

\* ------------------------------------------------- analytics: sampled inputs

DateStr(y, m, d) == [Y |-> y, M |-> m, D |-> d]
DateTime(y, m, d, h) == [year |-> y, month |-> m, day |-> d, hour |-> h]

Rec(d, a, desc) == [date |-> d, amount |-> a, description |-> desc]

\* The sampled records: dated around the week of Monday 2024-02-26, which
\* spans the end of a leap February, and two whose date does not parse.
Records ==
    { Rec(DateStr(2024, 2, 25), 10, "rent"),
      Rec(DateStr(2024, 2, 26), 25, "rent"),
      Rec(DateStr(2024, 2, 26), 25, "food"),
      Rec(DateStr(2024, 2, 29), 10, "rent"),
      Rec(DateStr(2024, 2, 29), 40, "rent"),
      Rec(DateStr(2024, 3, 1), 10, "rent"),
      Rec(DateStr(2024, 3, 1), 25, "rent"),
      Rec(DateStr(2024, 2, 30), 25, "rent"),
      Rec(DateStr(2024, 13, 1), 10, "rent") }

ExpenseLists == UNION {[1..n -> Records] : n \in 0..MaxLen}

\* Reference dates: a Thursday late in the day, the Monday of that week, its Sunday.
RefDates ==
    { DateTime(2024, 2, 29, 23), DateTime(2024, 2, 26, 0), DateTime(2024, 3, 3, 12) }
StartDates == { None, DateTime(2024, 2, 26, 23) }
EndDates == { None, DateTime(2024, 3, 1, 0) }

NoArgs == [start_date |-> None, end_date |-> None, current_date |-> None]

InitAnalytics ==
    /\ now = DateTime(2024, 3, 1, 9)
    /\ expenses \in ExpenseLists
    /\ a_op = "none"
    /\ a_in = NoArgs
    /\ a_out = <<>>
    /\ IdleTrend /\ IdleTable /\ IdleArchive /\ IdleSettings /\ IdleOthers

FilterByDateRange ==
    \E s \in StartDates, e \in EndDates, c \in RefDates \cup {None} :
        /\ a_op = "none"
        /\ a_op' = "filter"
        /\ a_in' = [start_date |-> s, end_date |-> e, current_date |-> c]
        /\ a_out' = _filter_expenses_by_date_range(expenses, s, e, c)
        /\ UNCHANGED <<now, expenses, trendVars, tableVars, archiveVars, settingsVars, otherVars>>

Calculate(op, exps, c) ==
    CASE op = "daily_average" -> calculate_daily_average(exps, c)
      [] op = "weekly_average" -> calculate_weekly_average(exps, c)
      [] op = "weekly_pace" -> calculate_weekly_pace(exps, c)
      [] op = "median_expense" -> calculate_median_expense(exps, c)
      [] op = "largest_expense" -> calculate_largest_expense(exps, c)

Apply(op) ==
    \E c \in RefDates :
        /\ a_op = "none"
        /\ a_op' = op
        /\ a_in' = [NoArgs EXCEPT !.current_date = c]
        /\ a_out' = Calculate(op, expenses, c)
        /\ UNCHANGED <<now, expenses, trendVars, tableVars, archiveVars, settingsVars, otherVars>>

DailyAverage == Apply("daily_average")
WeeklyAverage == Apply("weekly_average")
WeeklyPace == Apply("weekly_pace")
MedianExpense == Apply("median_expense")
LargestExpense == Apply("largest_expense")

NextAnalytics ==
    \/ FilterByDateRange
    \/ DailyAverage
    \/ WeeklyAverage
    \/ WeeklyPace
    \/ MedianExpense
    \/ LargestExpense

SpecAnalytics == InitAnalytics /\ [][NextAnalytics]_vars

\* ------------------------------------------------------ claims on analytics

\* The date string names a calendar date.
IsCalendarDate(ds) ==
    /\ ds.Y \in 1..9999
    /\ ds.M \in 1..12
    /\ ds.D \in 1..(IF ds.M = 2 THEN (IF IsLeap(ds.Y) THEN 29 ELSE 28)
                    ELSE IF ds.M \in {4, 6, 9, 11} THEN 30 ELSE 31)

\* The day number of a date string that names a calendar date.
OrdOfString(ds) == toordinal([year |-> ds.Y, month |-> ds.M, day |-> ds.D])

Reference == IF a_in.current_date = None THEN now ELSE a_in.current_date

InWindow(r) ==
    /\ IsCalendarDate(r.date)
    /\ a_in.start_date = None \/ OrdOfString(r.date) >= toordinal(a_in.start_date)
    /\ IF a_in.end_date # None
       THEN OrdOfString(r.date) <= toordinal(a_in.end_date)
       ELSE OrdOfString(r.date) <= toordinal(Reference)

\* C1: _filter_expenses_by_date_range returns exactly the records whose date
\* parses and lies in the window (start absent or date >= start; date <= end
\* when end is given, otherwise date <= reference date), bounds inclusive,
\* time of day ignored, in the input order, duplicates kept.
C1_FilterIsExactWindow ==
    a_op = "filter" => a_out = SelectSeq(expenses, InWindow)

\* C1 witness: a filter with a start and no end, late on the reference day,
\* that drops one record and keeps two records in list order, not date order.
C1_Witness ==
    /\ a_op = "filter"
    /\ a_in.start_date # None
    /\ a_in.end_date = None
    /\ a_in.current_date = DateTime(2024, 2, 29, 23)
    /\ Len(expenses) = 3
    /\ a_out = << [date |-> DateStr(2024, 2, 29), amount |-> 10, description |-> "rent"],
                  [date |-> DateStr(2024, 2, 26), amount |-> 25, description |-> "rent"] >>

CalcOps == {"daily_average", "weekly_average", "weekly_pace", "median_expense",
            "largest_expense"}

\* The list s with r inserted after its first i records.
InsertAt(s, i, r) == SubSeq(s, 1, i) \o <<r>> \o SubSeq(s, i + 1, Len(s))

BadRecords == {r \in Records : ~IsCalendarDate(r.date)}

\* C2: a record whose date string is no valid date never contributes: each of
\* the five calculations returns for a non-empty list with such a record
\* inserted at any position what it returns for the list alone.
C2_BadDateNeverContributes ==
    (a_op \in CalcOps /\ expenses # <<>>) =>
        \A r \in BadRecords : \A i \in 0..Len(expenses) :
            Calculate(a_op, InsertAt(expenses, i, r), a_in.current_date) = a_out

\* C2 witness: the largest expense was computed over a list that holds a
\* record with an unparseable date and a larger amount than the result.
C2_Witness ==
    /\ a_op = "largest_expense"
    /\ a_out = <<Quot(10, 1), "rent">>
    /\ \E i \in 1..Len(expenses) :
          ~IsCalendarDate(expenses[i].date) /\ expenses[i].amount = 25

\* Day number of the Monday of the week of day number o.
MondayOrd(o) == CHOOSE k \in (o - 6)..o : (k + 6) % 7 = 0

InWeekToDate(r) ==
    /\ IsCalendarDate(r.date)
    /\ OrdOfString(r.date) >= MondayOrd(toordinal(a_in.current_date))
    /\ OrdOfString(r.date) <= toordinal(a_in.current_date)

\* C6: for every non-empty list and reference date D, calculate_weekly_pace
\* returns (S / n, n): S the sum of the amounts dated from the Monday of D's
\* week through D, n the days from that Monday to D inclusive, 1 <= n <= 7;
\* and for every input, the empty list included, the returned day count is
\* n, the days elapsed in that week.
C6_WeeklyPace ==
    a_op = "weekly_pace" =>
        LET n == toordinal(a_in.current_date) - MondayOrd(toordinal(a_in.current_date)) + 1
            S == SumAmounts(SelectSeq(expenses, InWeekToDate))
        IN  /\ n \in 1..7
            /\ expenses # <<>> => a_out = <<Quot(S, n), n>>
            /\ a_out[2] = n

\* The records that count for the median: a date that names a calendar day,
\* on or before the reference date.
OnOrBeforeReference(r) ==
    /\ IsCalendarDate(r.date)
    /\ OrdOfString(r.date) <= toordinal(a_in.current_date)

\* A record dated after the reference date.
AfterReference(r) ==
    /\ IsCalendarDate(r.date)
    /\ OrdOfString(r.date) > toordinal(a_in.current_date)

NotAfterReference(r) == ~AfterReference(r)

\* The k-th smallest of the amounts of a non-empty list of records.
KthAmount(recs, k) ==
    CHOOSE v \in { recs[i].amount : i \in 1..Len(recs) } :
        /\ Cardinality({ i \in 1..Len(recs) : recs[i].amount < v }) < k
        /\ Cardinality({ i \in 1..Len(recs) : recs[i].amount <= v }) >= k

\* C17: calculate_median_expense returns (median, count) over the records
\* with a valid date on or before the reference date: count is their
\* number, the median is the middle one of their amounts in order when count
\* is odd and the mean of the two middle ones when it is even, (0.0, 0) when
\* there are none; leaving out the records dated after the reference date
\* gives the same result.
C17_Median ==
    a_op = "median_expense" =>
        LET counted == SelectSeq(expenses, OnOrBeforeReference)
            n == Len(counted)
        IN  /\ a_out =
                  (IF n = 0 THEN <<Quot(0, 1), 0>>
                   ELSE IF n % 2 = 1 THEN <<Quot(KthAmount(counted, (n + 1) \div 2), 1), n>>
                   ELSE <<Quot(KthAmount(counted, n \div 2)
                                 + KthAmount(counted, n \div 2 + 1), 2), n>>)
            /\ a_out = calculate_median_expense(SelectSeq(expenses, NotAfterReference),
                                                a_in.current_date)

\* C17 witness: the median on Monday 2024-02-26 of 25 and 10, given out of
\* order, with a later record of 40 in the list.
C17_Witness ==
    /\ a_op = "median_expense"
    /\ a_in.current_date = DateTime(2024, 2, 26, 0)
    /\ expenses = <<Rec(DateStr(2024, 2, 26), 25, "rent"),
                    Rec(DateStr(2024, 2, 29), 40, "rent"),
                    Rec(DateStr(2024, 2, 25), 10, "rent")>>
    /\ a_out = <<Quot(35, 2), 2>>

\* ----------------------------------------------------------------- floats
\*
\* Python's float is IEEE-754 binary64.  A float is modelled by its sign, its
\* mantissa and its exponent: the value is mant * 2^exp, with mant a whole
\* number of exactly 53 bits (0.0 has mant 0 and exp 0).  A mantissa, and
\* every whole number the arithmetic passes through, is written as its
\* digits in base 2^15, the lowest first, with no leading zero digit (0 is
\* the empty sequence).  Every operation returns the float nearest to the
\* exact result, ties going to the even mantissa.  The amounts of the
\* program are far from the largest and the smallest floats; overflow,
\* subnormal numbers, infinities and NaN are not modelled.

Base == 2^15
MantBits == 50 + 3

Tl(s) == IF s = <<>> THEN <<>> ELSE Tail(s)
Hd(s) == IF s = <<>> THEN 0 ELSE Head(s)

\* The digits without leading zeros.
RECURSIVE BigTrim(_)
BigTrim(a) ==
    IF a = <<>> THEN <<>>
    ELSE IF a[Len(a)] = 0 THEN BigTrim(SubSeq(a, 1, Len(a) - 1))
    ELSE a

RECURSIVE BigOfInt(_)
BigOfInt(n) == IF n = 0 THEN <<>> ELSE <<n % Base>> \o BigOfInt(n \div Base)

RECURSIVE IntOfBig(_)
IntOfBig(a) == IF a = <<>> THEN 0 ELSE Head(a) + Base * IntOfBig(Tail(a))

RECURSIVE BigAddCarry(_, _, _)
BigAddCarry(a, b, carry) ==
    IF a = <<>> /\ b = <<>> THEN (IF carry = 0 THEN <<>> ELSE <<carry>>)
    ELSE LET x == Hd(a) + Hd(b) + carry
         IN  <<x % Base>> \o BigAddCarry(Tl(a), Tl(b), x \div Base)

BigAdd(a, b) == BigAddCarry(a, b, 0)

RECURSIVE BigSubBorrow(_, _, _)
BigSubBorrow(a, b, borrow) ==
    IF a = <<>> THEN <<>>
    ELSE LET x == Head(a) - Hd(b) - borrow
         IN  <<IF x < 0 THEN x + Base ELSE x>>
             \o BigSubBorrow(Tail(a), Tl(b), IF x < 0 THEN 1 ELSE 0)

\* a - b, for a >= b.
BigSub(a, b) == BigTrim(BigSubBorrow(a, b, 0))

RECURSIVE BigLessFrom(_, _, _)
BigLessFrom(a, b, i) ==
    IF i = 0 THEN FALSE
    ELSE IF a[i] # b[i] THEN a[i] < b[i]
    ELSE BigLessFrom(a, b, i - 1)

BigLess(a, b) ==
    IF Len(a) # Len(b) THEN Len(a) < Len(b) ELSE BigLessFrom(a, b, Len(a))

RECURSIVE BigMulSmallCarry(_, _, _)
BigMulSmallCarry(a, k, carry) ==
    IF a = <<>> THEN (IF carry = 0 THEN <<>> ELSE <<carry>>)
    ELSE LET x == Head(a) * k + carry
         IN  <<x % Base>> \o BigMulSmallCarry(Tail(a), k, x \div Base)

\* a * k, for k < Base.
BigMulSmall(a, k) == IF k = 0 THEN <<>> ELSE BigMulSmallCarry(a, k, 0)

RECURSIVE BigMul(_, _)
BigMul(a, b) ==
    IF a = <<>> \/ b = <<>> THEN <<>>
    ELSE LET rest == BigMul(a, Tail(b))
         IN  BigAdd(BigMulSmall(a, Head(b)),
                    IF rest = <<>> THEN <<>> ELSE <<0>> \o rest)

\* a divided by k, for 0 < k <= Base: the quotient (with leading zeros) and
\* the remainder.
RECURSIVE BigDivSmallRaw(_, _)
BigDivSmallRaw(a, k) ==
    IF a = <<>> THEN [q |-> <<>>, r |-> 0]
    ELSE LET hi == BigDivSmallRaw(Tail(a), k)
             x == hi.r * Base + Head(a)
         IN  [q |-> <<x \div k>> \o hi.q, r |-> x % k]

BigDivSmall(a, k) ==
    LET d == BigDivSmallRaw(a, k) IN [q |-> BigTrim(d.q), r |-> d.r]

RECURSIVE BitLenInt(_)
BitLenInt(n) == IF n = 0 THEN 0 ELSE 1 + BitLenInt(n \div 2)

BigBitLen(a) ==
    IF a = <<>> THEN 0 ELSE 15 * (Len(a) - 1) + BitLenInt(a[Len(a)])

\* a * 2^n
BigShl(a, n) ==
    IF a = <<>> THEN <<>>
    ELSE [i \in 1..(n \div 15) |-> 0] \o BigMulSmall(a, 2^(n % 15))

\* a \div 2^n
BigShr(a, n) ==
    IF n \div 15 >= Len(a) THEN <<>>
    ELSE BigDivSmall(SubSeq(a, n \div 15 + 1, Len(a)), 2^(n % 15)).q

\* Bit i of a (bit 0 is the lowest).
BigBit(a, i) ==
    IF i \div 15 >= Len(a) THEN 0 ELSE (a[i \div 15 + 1] \div 2^(i % 15)) % 2

\* a is a multiple of 2^n.
BigLowZero(a, n) == BigShl(BigShr(a, n), n) = a

\* One digit of a long division by b, whose top digit is at least Base / 2:
\* the digit is estimated from the top digits of the remainder and is at
\* most two too large.
RECURSIVE BigFitDigit(_, _, _, _)
BigFitDigit(r, b, q, t) ==
    IF BigLess(r, t) THEN BigFitDigit(r, b, q - 1, BigSub(t, b))
    ELSE [q |-> q, r |-> BigSub(r, t)]

BigDigit(r, b) ==
    LET m == Len(b)
    IN  IF Len(r) < m THEN [q |-> 0, r |-> r]
        ELSE LET top == IF Len(r) > m THEN r[m + 1] * Base + r[m] ELSE r[m]
                 est == IF top \div b[m] > Base - 1 THEN Base - 1 ELSE top \div b[m]
             IN  BigFitDigit(r, b, est, BigMulSmall(b, est))

\* a divided by b, whose top digit is at least Base / 2: the quotient and
\* the remainder.
RECURSIVE BigDivRaw(_, _)
BigDivRaw(a, b) ==
    IF a = <<>> THEN [q |-> <<>>, r |-> <<>>]
    ELSE LET hi == BigDivRaw(Tail(a), b)
             d == BigDigit(BigTrim(<<Head(a)>> \o hi.r), b)
         IN  [q |-> <<d.q>> \o hi.q, r |-> d.r]

BigDiv(a, b) ==
    LET d == BigDivRaw(a, b) IN [q |-> BigTrim(d.q), r |-> d.r]

\* 0.0
FZero == [neg |-> FALSE, mant |-> <<>>, exp |-> 0]

\* The float nearest to n * 2^e (n > 0), or to a number between n * 2^e
\* and (n + 1) * 2^e when inexact is true (n then has more than 54 bits).
Nearest(neg, n, e, inexact) ==
    LET len == BigBitLen(n)
        drop == len - MantBits
    IN  IF drop <= 0
        THEN [neg |-> neg, mant |-> BigShl(n, -drop), exp |-> e + drop]
        ELSE LET kept == BigShr(n, drop)
                 half == BigBit(n, drop - 1) = 1
                 more == inexact \/ ~BigLowZero(n, drop - 1)
                 up == half /\ (more \/ BigBit(kept, 0) = 1)
                 mant == IF up THEN BigAdd(kept, <<1>>) ELSE kept
             IN  IF BigBitLen(mant) > MantBits
                 THEN [neg |-> neg, mant |-> BigShr(mant, 1), exp |-> e + drop + 1]
                 ELSE [neg |-> neg, mant |-> mant, exp |-> e + drop]

\* float of the decimal literal with n hundredths (json.load on '0.21').
float_of_hundredths(n) ==
    IF n = 0 THEN FZero
    ELSE LET d == BigDivSmall(BigShl(BigOfInt(IF n < 0 THEN -n ELSE n), 64), 100)
         IN  Nearest(n < 0, d.q, -64, d.r # 0)

\* -x and abs(x)
FNeg(x) == [x EXCEPT !.neg = ~x.neg]
FAbs(x) == [x EXCEPT !.neg = FALSE]

\* x + y
FAdd(x, y) ==
    IF x.mant = <<>> THEN (IF y.mant = <<>> THEN [y EXCEPT !.neg = x.neg /\ y.neg] ELSE y)
    ELSE IF y.mant = <<>> THEN x
    ELSE LET e == IF x.exp < y.exp THEN x.exp ELSE y.exp
             a == BigShl(x.mant, x.exp - e)
             b == BigShl(y.mant, y.exp - e)
         IN  IF x.neg = y.neg THEN Nearest(x.neg, BigAdd(a, b), e, FALSE)
             ELSE IF a = b THEN FZero
             ELSE IF BigLess(b, a) THEN Nearest(x.neg, BigSub(a, b), e, FALSE)
             ELSE Nearest(y.neg, BigSub(b, a), e, FALSE)

\* x - y
FSub(x, y) == FAdd(x, FNeg(y))

\* x * y
FMul(x, y) ==
    IF x.mant = <<>> \/ y.mant = <<>>
    THEN [neg |-> x.neg # y.neg, mant |-> <<>>, exp |-> 0]
    ELSE Nearest(x.neg # y.neg, BigMul(x.mant, y.mant), x.exp + y.exp, FALSE)

\* x / y, for y other than 0.0.  The mantissa of y, shifted by 7 bits, has
\* a top digit of at least Base / 2.
FDiv(x, y) ==
    IF x.mant = <<>> THEN [neg |-> x.neg # y.neg, mant |-> <<>>, exp |-> 0]
    ELSE LET d == BigDiv(BigShl(x.mant, 64 + 7), BigShl(y.mant, 7))
         IN  Nearest(x.neg # y.neg, d.q, x.exp - y.exp - 64, d.r # <<>>)

\* x < y
FLess(x, y) ==
    LET MagLess(a, b) ==
            IF a.mant = <<>> THEN b.mant # <<>>
            ELSE IF b.mant = <<>> THEN FALSE
            ELSE IF a.exp # b.exp THEN a.exp < b.exp
            ELSE BigLess(a.mant, b.mant)
    IN  IF x.mant = <<>> /\ y.mant = <<>> THEN FALSE
        ELSE IF x.neg /\ ~y.neg THEN TRUE
        ELSE IF ~x.neg /\ y.neg THEN FALSE
        ELSE IF x.neg THEN MagLess(y, x)
        ELSE MagLess(x, y)

\* The floats 5.0 and 100.0 (the int 100 as the multiplication converts it).
Five == Nearest(FALSE, BigOfInt(5), 0, FALSE)
Hundred == Nearest(FALSE, BigOfInt(100), 0, FALSE)

\* The hundredths that "%.2f" prints for abs(x): the whole number nearest to
\* abs(x) * 100, ties going to the even one.
RoundedHundredths(x) ==
    IF x.mant = <<>> THEN 0
    ELSE LET n == BigMulSmall(x.mant, 100)
         IN  IF x.exp >= 0 THEN IntOfBig(BigShl(n, x.exp))
             ELSE LET drop == -x.exp
                      kept == BigShr(n, drop)
                      half == BigBit(n, drop - 1) = 1
                      more == ~BigLowZero(n, drop - 1)
                      up == half /\ (more \/ BigBit(kept, 0) = 1)
                  IN  IntOfBig(IF up THEN BigAdd(kept, <<1>>) ELSE kept)

\* -------------------------------------------------------------------- trend

\* A month key "YYYY-MM" and a data folder name "data_YYYY-MM".
MonthKey(y, m) == [Y |-> y, M |-> m]
Folder(key) == [prefix |-> "data_", month |-> key]

\* An optional float that was supplied.
Float(x) == [float |-> x]

MonthNames ==
    << "January", "February", "March", "April", "May", "June", "July", "August",
       "September", "October", "November", "December" >>

\* strftime('%B %Y')
MonthDisplay(dt) == [name |-> MonthNames[dt.month], year |-> dt.year]

\* f"${x:.2f}": the sign of x (of -0.0 too) and abs(x) rounded to hundredths.
FormatMoney(x) ==
    [prefix |-> "$", negative |-> x.neg,
     whole |-> RoundedHundredths(x) \div 100, cents |-> RoundedHundredths(x) % 100]

\* sum(e['amount'] for e in prev_expenses): the amounts, written in the file
\* as decimal numbers with two places, are added as floats from left to
\* right, starting from 0.
RECURSIVE sum_amounts(_)
sum_amounts(prev_expenses) ==
    IF prev_expenses = <<>> THEN FZero
    ELSE FAdd(sum_amounts(SubSeq(prev_expenses, 1, Len(prev_expenses) - 1)),
              float_of_hundredths(prev_expenses[Len(prev_expenses)].amount))

\* The sum of a prev-month file's amounts that skips the records without one.
read_prev_total_lenient(file) ==
    LET WithAmount(e) == "amount" \in DOMAIN e
    IN  IF file.kind \in {"list", "dict"}
        THEN sum_amounts(SelectSeq(file.expenses, WithAmount))
        ELSE FZero

\* calculate_monthly_trend, the reading of the previous month's total: 0.0
\* when the file is missing, cannot be opened, is no JSON, or a record has no
\* amount; [] for a dict without 'expenses' and for any other JSON value.
read_prev_total(file) ==
    IF file.kind \in {"missing", "unreadable", "invalid_json"} THEN FZero
    ELSE IF file.kind \in {"list", "dict"}
        THEN IF \A i \in 1..Len(file.expenses) : "amount" \in DOMAIN file.expenses[i]
             THEN sum_amounts(file.expenses)
             ELSE FZero
    ELSE FZero

\* The indicator with a change of exactly 5.0 per cent taken as similar.
comparison_indicator_upto5(current_month_total, prev_total) ==
    IF current_month_total # None /\ FLess(FZero, prev_total)
    THEN LET difference == FSub(current_month_total.float, prev_total)
             percentage == FAbs(FMul(FDiv(difference, prev_total), Hundred))
         IN  IF ~FLess(Five, percentage)
             THEN [symbol |-> "~=", percentage |-> percentage,
                   direction |-> "similar", color |-> "#999999"]
             ELSE IF FLess(FZero, difference)
             THEN [symbol |-> "up", percentage |-> percentage,
                   direction |-> "increase", color |-> "#C00000"]
             ELSE [symbol |-> "down", percentage |-> percentage,
                   direction |-> "decrease", color |-> "#666666"]
    ELSE None

\* calculate_monthly_trend, the comparison indicator, in float arithmetic.
\* The symbols stand for the source's approximately-equal sign and up and
\* down triangles.
comparison_indicator(current_month_total, prev_total) ==
    IF current_month_total # None /\ FLess(FZero, prev_total)
    THEN
        LET difference == FSub(current_month_total.float, prev_total)
            percentage == FAbs(FMul(FDiv(difference, prev_total), Hundred))
        IN  IF FLess(percentage, Five)
            THEN [symbol |-> "~=", percentage |-> percentage,
                  direction |-> "similar", color |-> "#999999"]
            ELSE IF FLess(FZero, difference)
            THEN [symbol |-> "up", percentage |-> percentage,
                  direction |-> "increase", color |-> "#C00000"]
            ELSE [symbol |-> "down", percentage |-> percentage,
                  direction |-> "decrease", color |-> "#666666"]
    ELSE None

\* The file of a folder; a folder that is not on disk has none.
FileOf(folder) ==
    IF folder \in DOMAIN t_fs THEN t_fs[folder] ELSE [kind |-> "missing", expenses |-> <<>>]

\* ExpenseAnalytics.calculate_monthly_trend.  The result carries, beside the
\* returned triple, the folder whose expenses.json the call looked for.
calculate_monthly_trend(prev_month_data_folder, current_month_total, viewed_month_key) ==
    LET prev_month_date ==
            IF viewed_month_key # None
            THEN MinusDays(replace_day(
                     DateTime(viewed_month_key.Y, viewed_month_key.M, 1, 0), 1), 1)
            ELSE MinusDays(replace_day(now, 1), 1)
        prev_month_key == MonthKey(prev_month_date.year, prev_month_date.month)
        prev_month_name == MonthDisplay(prev_month_date)
        prev_data_folder == Folder(prev_month_key)
        prev_total == read_prev_total(FileOf(prev_data_folder))
    IN  [ prev_total_formatted |-> FormatMoney(prev_total),
          prev_month_name |-> prev_month_name,
          comparison_indicator |-> comparison_indicator(current_month_total, prev_total),
          looked_in |-> prev_data_folder ]

\* ----------------------------------------------------- trend: sampled inputs

File(kind, exps) == [kind |-> kind, expenses |-> exps]
Amount(n) == [amount |-> n]

\* The sampled states of a folder's expenses.json; the amounts are in
\* hundredths (Amount(4000) is the 40.00 of the file).
FileStates ==
    { File("missing", <<>>),
      File("list", <<Amount(20)>>),
      File("list", <<Amount(10), Amount(20)>>),
      File("unreadable", <<Amount(10000)>>),
      File("invalid_json", <<>>),
      File("scalar", <<>>),
      File("list", <<Amount(4000), Amount(6000)>>),
      File("list", <<Amount(2500), [description |-> "no amount"]>>),
      File("dict", <<Amount(10000)>>),
      File("dict", <<Amount(-5000)>>) }

\* The folders on disk and the folder arguments.
Folders == { Folder(MonthKey(2023, 12)), Folder(MonthKey(2024, 1)), Folder(MonthKey(2024, 2)) }

ViewedMonths == { None, MonthKey(2024, 1), MonthKey(2024, 2), MonthKey(2024, 3) }

\* The sampled current totals, in hundredths: Float(9500) stands for the
\* float 95.0, Float(21) for the float nearest to 0.21.
CurrentTotals ==
    { None, Float(0), Float(19), Float(21), Float(9500), Float(9600), Float(10000),
      Float(10400), Float(10500), Float(15000) }

\* The float of a sampled total.
FloatOf(total) ==
    IF total = None THEN None ELSE Float(float_of_hundredths(total.float))

Todays == { DateTime(2024, 1, 15, 9), DateTime(2024, 3, 31, 23) }

\* One folder holds any of the sampled files; the other folders all hold
\* no file, or all the same list.
InitTrend ==
    /\ now \in Todays
    /\ \E one \in Folders, file \in FileStates,
          other \in {File("missing", <<>>), File("list", <<Amount(4000), Amount(6000)>>)} :
          t_fs = [f \in Folders |-> IF f = one THEN file ELSE other]
    /\ t_op = "none"
    /\ t_in = None
    /\ t_out = None
    /\ IdleAnalytics /\ IdleTable /\ IdleArchive /\ IdleSettings /\ IdleOthers

MonthlyTrend ==
    \E f \in Folders, c \in CurrentTotals, v \in ViewedMonths :
        /\ t_op = "none"
        /\ t_op' = "trend"
        /\ t_in' = [prev_month_data_folder |-> f, current_month_total |-> c,
                    viewed_month_key |-> v]
        /\ t_out' = calculate_monthly_trend(f, FloatOf(c), v)
        /\ UNCHANGED <<now, t_fs, analyticsVars, tableVars, archiveVars, settingsVars, otherVars>>

NextTrend == MonthlyTrend

SpecTrend == InitTrend /\ [][NextTrend]_vars

\* ---------------------------------------------------------- claims on trend

\* The amount a formatted "$d.cc" text reads as, in hundredths.
Unformat(f) == (IF f.negative THEN -1 ELSE 1) * (f.whole * 100 + f.cents)

\* The month before the viewed month, or before today's when none is viewed.
ComparedMonth ==
    LET base == IF t_in.viewed_month_key # None
                THEN t_in.viewed_month_key
                ELSE MonthKey(now.year, now.month)
    IN  IF base.M = 1 THEN MonthKey(base.Y - 1, 12) ELSE MonthKey(base.Y, base.M - 1)

ComparedMonthName == [name |-> MonthNames[ComparedMonth.M], year |-> ComparedMonth.Y]

SymbolOf(direction) ==
    CASE direction = "similar" -> "~="
      [] direction = "increase" -> "up"
      [] direction = "decrease" -> "down"

ColorOf(direction) ==
    CASE direction = "similar" -> "#999999"
      [] direction = "increase" -> "#C00000"
      [] direction = "decrease" -> "#666666"

\* 1000000000 * n
Billion(n) == BigMulSmall(BigMulSmall(BigMulSmall(n, 1000), 1000), 1000)

\* The float x is the fraction a / b (a >= 0, b > 0) to within one part in
\* 1000000000.
NearFraction(x, a, b) ==
    LET up == IF x.exp > 0 THEN x.exp ELSE 0
        down == IF x.exp < 0 THEN -x.exp ELSE 0
        left == BigShl(BigMulSmall(x.mant, b), up)
        right == BigShl(BigOfInt(a), down)
        gap == IF BigLess(left, right) THEN BigSub(right, left) ELSE BigSub(left, right)
    IN  ~x.neg /\ ~BigLess(right, Billion(gap))

\* The previous month's total as the code sums it: the float sum of the
\* amounts in the compared month's file, 0.0 when the file fails.
PrevTotal == read_prev_total(FileOf(Folder(ComparedMonth)))

\* C3: the trend indicator compares the current total c with the previous
\* month's total p: percentage = |c - p| / p * 100, never negative; direction
\* "similar" iff percentage < 5, otherwise "increase" iff c > p and
\* "decrease" iff c < p; one fixed symbol and color per direction; the
\* indicator is None exactly when c is not supplied or p <= 0.  c and p are
\* the floats the function works on and the percentage is the float the
\* claim's expression gives, which is the one returned; it is the fraction
\* of the amounts in hundredths to within one part in 1000000000.
C3_TrendIndicator ==
    t_op = "trend" =>
        LET c == FloatOf(t_in.current_month_total)
            p == PrevTotal
            ind == t_out.comparison_indicator
        IN  /\ (ind = None) <=> (c = None \/ ~FLess(FZero, p))
            /\ ind # None =>
                LET percentage == FMul(FDiv(FAbs(FSub(c.float, p)), p), Hundred)
                    below5 == FLess(percentage, Five)
                    cents == Unformat(t_out.prev_total_formatted)
                IN  /\ ind.percentage = percentage
                    /\ ~percentage.neg
                    /\ NearFraction(percentage,
                                    Abs(t_in.current_month_total.float - cents) * 100, cents)
                    /\ ind.direction \in {"similar", "increase", "decrease"}
                    /\ (ind.direction = "similar") <=> below5
                    /\ (ind.direction = "increase") <=> (~below5 /\ FLess(p, c.float))
                    /\ (ind.direction = "decrease") <=> (~below5 /\ FLess(c.float, p))
                    /\ ind.symbol = SymbolOf(ind.direction)
                    /\ ind.color = ColorOf(ind.direction)

\* C3 witness: a call whose percentage is the float 5.0 itself (105.00
\* against 40.00 + 60.00), reported as an increase.
C3_Witness ==
    /\ t_op = "trend"
    /\ t_in.current_month_total = Float(10500)
    /\ Unformat(t_out.prev_total_formatted) = 10000
    /\ t_out.comparison_indicator # None
    /\ t_out.comparison_indicator.percentage = Five
    /\ t_out.comparison_indicator.direction = "increase"

\* The previous month's file is missing, unreadable, no JSON, or holds a
\* record without an amount.
FileFails(file) ==
    \/ file.kind \in {"missing", "unreadable", "invalid_json"}
    \/ \E i \in 1..Len(file.expenses) : "amount" \notin DOMAIN file.expenses[i]

\* C4: when the previous month's expenses file is missing, unreadable, not
\* valid JSON or holds records without an amount, calculate_monthly_trend
\* returns "$0.00", the previous month's name and no indicator, whatever the
\* current total.
C4_MissingFileIsZero ==
    (t_op = "trend" /\ FileFails(FileOf(Folder(ComparedMonth)))) =>
        /\ t_out.prev_total_formatted =
              [prefix |-> "$", negative |-> FALSE, whole |-> 0, cents |-> 0]
        /\ t_out.prev_month_name = ComparedMonthName
        /\ t_out.comparison_indicator = None

\* C4 witness: a call with a current total over a previous month's file in
\* which one record has an amount and one has none.
C4_Witness ==
    /\ t_op = "trend"
    /\ t_in.current_month_total = Float(15000)
    /\ FileOf(Folder(ComparedMonth)).kind = "list"
    /\ \E i \in 1..Len(FileOf(Folder(ComparedMonth)).expenses) :
          "amount" \notin DOMAIN FileOf(Folder(ComparedMonth)).expenses[i]
    /\ \E i \in 1..Len(FileOf(Folder(ComparedMonth)).expenses) :
          "amount" \in DOMAIN FileOf(Folder(ComparedMonth)).expenses[i]

\* C5: the compared month is the month before the viewed month when a viewed
\* month key is given (January goes to December of the year before), the
\* month before today's otherwise; the data is read from 'data_<that month>',
\* and the prev_month_data_folder argument is recalculated only when a viewed
\* month key is given: otherwise the passed folder is the one used.
C5_PassedFolderUsedUnlessViewed ==
    t_op = "trend" =>
        /\ t_out.prev_month_name = ComparedMonthName
        /\ t_out.looked_in =
              IF t_in.viewed_month_key # None
              THEN Folder(ComparedMonth)
              ELSE t_in.prev_month_data_folder

\* ------------------------------------------------------------- status bar
\*
\* StatusBarManager over the Tk event loop.  sb_label is the label widget
\* (None before create_ui), sb_timer is status_clear_timer (0 for None,
\* otherwise the id that parent.after returned), sb_after is Tk's queue of
\* pending after-callbacks, each with the time left before it is due.  Time
\* passes in ticks; the event loop runs a callback that is due before any
\* more time passes.  sb_age counts the ticks since the latest show,
\* sb_calls the calls of show and clear, sb_last names the latest step.

\* config.StatusBar.CLEAR_DELAY_MS, counted in ticks.
CLEAR_DELAY_MS == 2

\* Most calls of show and clear in one run.
MaxShows == 4

\* The default of show's icon argument, the icon the expense list page
\* passes (config.StatusBar.SUCCESS_ICON) and its two messages
\* (config.Messages.EXPENSE_DELETED, config.Messages.EXPENSE_EDITED).
DEFAULT_ICON == "i"
SUCCESS_ICON == "ok"
EXPENSE_DELETED == "EXPENSE_DELETED"
EXPENSE_EDITED == "EXPENSE_EDITED"

Messages == {"Expense added", "Export failed"}
Icons == {DEFAULT_ICON, SUCCESS_ICON}

\* f"{icon} {message}"
format_status(icon, message) == icon \o " " \o message

\* parent.after(ms, self.clear): a new callback in the queue, under a new id.
after(queue, id, ms) == queue \cup {[id |-> id, left |-> ms]}

\* parent.after_cancel(id): the callback is taken from the queue, if there.
after_cancel(queue, id) == { e \in queue : e.id # id }

\* A _cancel_timer that forgets the timer and leaves its callback in Tk's
\* queue.
cancel_timer_forget(queue, timer) == [queue |-> queue, timer |-> 0]

\* _cancel_timer: the queue and status_clear_timer after it.
_cancel_timer(queue, timer) ==
    IF timer # 0
    THEN [queue |-> after_cancel(queue, timer), timer |-> 0]
    ELSE [queue |-> queue, timer |-> timer]

\* clear: the label, the queue and the timer after it.
clear(label, queue, timer) ==
    IF label = None
    THEN [label |-> label, queue |-> queue, timer |-> timer]
    ELSE LET c == _cancel_timer(queue, timer)
         IN  [label |-> [text |-> ""], queue |-> c.queue, timer |-> c.timer]

\* show: the label, the queue and the timer after it; id is the id that
\* parent.after hands out if it is called.
show(label, queue, timer, id, message, icon, auto_clear) ==
    IF label = None
    THEN [label |-> label, queue |-> queue, timer |-> timer]
    ELSE LET c == _cancel_timer(queue, timer)
         IN  IF auto_clear
             THEN [label |-> [text |-> format_status(icon, message)],
                   queue |-> after(c.queue, id, CLEAR_DELAY_MS), timer |-> id]
             ELSE [label |-> [text |-> format_status(icon, message)],
                   queue |-> c.queue, timer |-> c.timer]

InitStatus ==
    /\ now = DateTime(2024, 3, 1, 9)
    /\ IdleStatus
    /\ IdleCalls /\ IdleThreads /\ IdleSingleton /\ IdleHistory
    /\ IdleAnalytics /\ IdleTrend /\ IdleTable /\ IdleArchive /\ IdleSettings

\* What a step of the status bar leaves alone.
StatusFrame ==
    UNCHANGED <<now, analyticsVars, trendVars, tableVars, archiveVars, settingsVars,
                callVars, threadVars, singletonVars, historyVars>>

\* create_ui(): the label is created, with an empty text.
CreateUi ==
    /\ sb_label' = [text |-> ""]
    /\ sb_last' = "create_ui"
    /\ UNCHANGED <<sb_timer, sb_after, sb_ids, sb_age, sb_calls>>
    /\ StatusFrame

\* show(message, icon, auto_clear).
Show ==
    /\ sb_calls < MaxShows
    /\ \E message \in Messages, icon \in Icons, auto_clear \in BOOLEAN :
          LET r == show(sb_label, sb_after, sb_timer, sb_ids + 1, message, icon,
                        auto_clear)
          IN  /\ sb_label' = r.label
              /\ sb_after' = r.queue
              /\ sb_timer' = r.timer
              /\ sb_ids' = IF sb_label # None /\ auto_clear THEN sb_ids + 1 ELSE sb_ids
              /\ sb_last' = IF auto_clear THEN "show_auto_clear" ELSE "show_keep"
    /\ sb_age' = 0
    /\ sb_calls' = sb_calls + 1
    /\ StatusFrame

\* clear(), called by the program.
Clear ==
    /\ sb_calls < MaxShows
    /\ LET r == clear(sb_label, sb_after, sb_timer)
       IN  /\ sb_label' = r.label
           /\ sb_after' = r.queue
           /\ sb_timer' = r.timer
    /\ sb_last' = "clear"
    /\ sb_calls' = sb_calls + 1
    /\ UNCHANGED <<sb_ids, sb_age>>
    /\ StatusFrame

\* The event loop runs a callback that is due: Tk takes it from the queue
\* and calls self.clear.
TimerFires ==
    /\ \E e \in sb_after :
          /\ e.left = 0
          /\ LET r == clear(sb_label, sb_after \ {e}, sb_timer)
             IN  /\ sb_label' = r.label
                 /\ sb_after' = r.queue
                 /\ sb_timer' = r.timer
    /\ sb_last' = "timer"
    /\ UNCHANGED <<sb_ids, sb_age, sb_calls>>
    /\ StatusFrame

\* Time passes while callbacks are pending and none is due.
TickStatus ==
    /\ sb_after # {}
    /\ \A e \in sb_after : e.left > 0
    /\ sb_after' = { [id |-> e.id, left |-> e.left - 1] : e \in sb_after }
    /\ sb_age' = sb_age + 1
    /\ sb_last' = "tick"
    /\ UNCHANGED <<sb_label, sb_timer, sb_ids, sb_calls>>
    /\ StatusFrame

NextStatus == CreateUi \/ Show \/ Clear \/ TimerFires \/ TickStatus

SpecStatus == InitStatus /\ [][NextStatus]_vars

\* The event loop keeps running and time keeps passing.
SpecStatusFair == SpecStatus /\ WF_vars(TimerFires) /\ WF_vars(TickStatus)

\* ------------------------------------------------ claims on the status bar

\* A timer is pending: status_clear_timer names a callback in Tk's queue.
TimerPending == sb_timer # 0

\* The label shows nothing and no timer is kept.
Cleared == sb_label = [text |-> ""] /\ sb_timer = 0 /\ sb_after = {}

\* C16: with the status bar created, after show(message, auto_clear=True)
\* the one pending callback is due CLEAR_DELAY_MS after the latest show, so
\* a later show restarts the delay; when it fires the text is empty and
\* status_clear_timer is None; clear() empties the text at once and leaves
\* no pending timer; and a pending timer leads to the cleared status bar
\* unless show or clear is called again.
C16_AutoClear ==
    /\ [](sb_label # None =>
            /\ sb_last = "show_auto_clear" =>
                  sb_label.text # "" /\ sb_timer # 0 /\ sb_age = 0
            /\ TimerPending =>
                  sb_after = {[id |-> sb_timer, left |-> CLEAR_DELAY_MS - sb_age]}
            /\ ~TimerPending => sb_after = {}
            /\ sb_last = "timer" => Cleared /\ sb_age = CLEAR_DELAY_MS
            /\ sb_last = "clear" => Cleared)
    /\ \A n \in 0..MaxShows :
          (TimerPending /\ sb_calls = n) ~> (Cleared \/ sb_calls > n)

\* C16 witness: a second show restarted the delay and its timer has fired.
C16_Witness ==
    /\ sb_last = "timer"
    /\ sb_ids = 2
    /\ sb_calls = 2
    /\ sb_age = CLEAR_DELAY_MS
    /\ Cleared

\* -------------------------------------------------------- expense list page

MaxRows == 3

\* ExpenseData(date, amount, description): the objects the table manager
\* holds.
ExpenseData(d, a, desc) == <<d, a, desc>>

\* ExpenseData.to_dict
to_dict(exp) == [date |-> exp[1], amount |-> exp[2], description |-> exp[3]]

\* [exp.to_dict() for exp in table_expenses]
RECURSIVE ToDicts(_)
ToDicts(table_expenses) ==
    IF table_expenses = <<>> THEN <<>>
    ELSE <<to_dict(Head(table_expenses))>> \o ToDicts(Tail(table_expenses))

\* expense_tracker.save_data(): the tracker's list and total, as written.
save_data(exps, total) == [expenses |-> exps, monthly_total |-> total]

\* status_manager.show(message, icon) on the status bar as the page finds it:
\* the label, Tk's queue, the timer and the after ids handed out, after it.
status_manager_show(bar, message, icon) ==
    LET r == show(bar.label, bar.queue, bar.timer, bar.ids + 1, message, icon, TRUE)
    IN  [label |-> r.label, queue |-> r.queue, timer |-> r.timer,
         ids |-> IF bar.label # None THEN bar.ids + 1 ELSE bar.ids]

\* on_expense_change with the total taken over the records dated in the
\* tracked month only.
on_expense_change_month_only(table_expenses, previous_count, shown, bar) ==
    LET current_count == Len(table_expenses)
        exps == ToDicts(table_expenses)
        InMonth(e) == e.date.Y = tr_current_month.Y /\ e.date.M = tr_current_month.M
        total == SumAmounts(SelectSeq(exps, InMonth))
    IN  [ expenses |-> exps,
          monthly_total |-> total,
          disk |-> save_data(exps, total),
          status |-> IF current_count < previous_count THEN EXPENSE_DELETED
                     ELSE IF current_count = previous_count THEN EXPENSE_EDITED
                     ELSE shown,
          bar |-> IF current_count < previous_count
                  THEN status_manager_show(bar, EXPENSE_DELETED, SUCCESS_ICON)
                  ELSE IF current_count = previous_count
                  THEN status_manager_show(bar, EXPENSE_EDITED, SUCCESS_ICON)
                  ELSE bar,
          previous_count |-> current_count,
          calls |-> <<"save_data">>
                    \o (IF current_count <= previous_count
                        THEN <<"status_manager.show">> ELSE <<>>)
                    \o <<"update_display", "update_metrics", "update_tooltip">> ]

\* on_expense_change: the tracker's list is rebuilt from the table, the total
\* is the sum over the whole list, the data is saved, the status bar reports a
\* delete (count fell) or an edit (count unchanged), the count is remembered,
\* and the display, the metrics and the tray tooltip are refreshed.
on_expense_change(table_expenses, previous_count, shown, bar) ==
    LET current_count == Len(table_expenses)
        exps == ToDicts(table_expenses)
        total == SumAmounts(exps)
    IN  [ expenses |-> exps,
          monthly_total |-> total,
          disk |-> save_data(exps, total),
          status |-> IF current_count < previous_count THEN EXPENSE_DELETED
                     ELSE IF current_count = previous_count THEN EXPENSE_EDITED
                     ELSE shown,
          bar |-> IF current_count < previous_count
                  THEN status_manager_show(bar, EXPENSE_DELETED, SUCCESS_ICON)
                  ELSE IF current_count = previous_count
                  THEN status_manager_show(bar, EXPENSE_EDITED, SUCCESS_ICON)
                  ELSE bar,
          previous_count |-> current_count,
          calls |-> <<"save_data">>
                    \o (IF current_count <= previous_count
                        THEN <<"status_manager.show">> ELSE <<>>)
                    \o <<"update_display", "update_metrics", "update_tooltip">> ]

\* The sampled table rows, for a tracker on February 2024 on the 15th: one
\* dated earlier in the month, one later in the month, one in the next
\* month and one whose date names no calendar day.
Rows ==
    { ExpenseData(DateStr(2024, 2, 10), 1000, "rent"),
      ExpenseData(DateStr(2024, 2, 20), 250, "food"),
      ExpenseData(DateStr(2024, 3, 1), 400, "fuel"),
      ExpenseData(DateStr(2024, 2, 30), 75, "misc") }

\* The table after a change, with the callback run on it; a callback that
\* calls status_manager.show is one more of the run's calls of show.
Changed(new_table) ==
    LET shows == Len(new_table) <= prev_count
        r == on_expense_change(new_table, prev_count, status,
                               [label |-> sb_label, queue |-> sb_after,
                                timer |-> sb_timer, ids |-> sb_ids])
    IN  /\ shows => sb_calls < MaxShows
        /\ table' = new_table
        /\ tr_expenses' = r.expenses
        /\ tr_monthly_total' = r.monthly_total
        /\ disk' = r.disk
        /\ status' = r.status
        /\ prev_count' = r.previous_count
        /\ ui_log' = r.calls
        /\ sb_label' = r.bar.label
        /\ sb_after' = r.bar.queue
        /\ sb_timer' = r.bar.timer
        /\ sb_ids' = r.bar.ids
        /\ sb_age' = IF shows THEN 0 ELSE sb_age
        /\ sb_calls' = IF shows THEN sb_calls + 1 ELSE sb_calls
        /\ sb_last' = IF shows THEN "show_auto_clear" ELSE sb_last
        /\ UNCHANGED <<now, analyticsVars, trendVars, archiveVars, settingsVars,
                       callVars, threadVars, singletonVars, historyVars>>

\* A row is added to the table.
TableAdd ==
    /\ Len(table) < MaxRows
    /\ \E exp \in Rows : Changed(Append(table, exp))

\* A row of the table is edited.
TableEdit ==
    \E i \in 1..Len(table), exp \in Rows :
        /\ exp # table[i]
        /\ Changed([table EXCEPT ![i] = exp])

\* A row of the table is deleted.
TableDelete ==
    \E i \in 1..Len(table) :
        Changed(SubSeq(table, 1, i - 1) \o SubSeq(table, i + 1, Len(table)))

\* The page over an empty table, the status bar created (create_ui has
\* run) or not yet.
InitTable ==
    /\ now = DateTime(2024, 2, 15, 10)
    /\ IdleTable
    /\ sb_label \in {None, [text |-> ""]}
    /\ sb_timer = 0 /\ sb_after = {} /\ sb_ids = 0 /\ sb_age = 0 /\ sb_calls = 0
    /\ sb_last = "none"
    /\ IdleCalls /\ IdleThreads /\ IdleSingleton /\ IdleHistory
    /\ IdleAnalytics /\ IdleTrend /\ IdleArchive /\ IdleSettings

\* The table changes, and the event loop runs the status bar's timer.
NextTable == TableAdd \/ TableEdit \/ TableDelete \/ TimerFires \/ TickStatus

SpecTable == InitTable /\ [][NextTable]_vars

\* ---------------------------------------------- claims on the expense list

\* The sum of the amounts of a list of table rows.
RECURSIVE SumRows(_)
SumRows(rows) == IF rows = <<>> THEN 0 ELSE Head(rows)[2] + SumRows(Tail(rows))

\* The row is dated on a calendar day of the month the tracker is on.
InTrackedMonth(row) ==
    /\ IsCalendarDate(row[1])
    /\ row[1].Y = tr_current_month.Y
    /\ row[1].M = tr_current_month.M

\* The tracker's list is the table's list, row for row.
SameAsTable ==
    /\ Len(tr_expenses) = Len(table)
    /\ \A i \in 1..Len(table) :
          /\ tr_expenses[i].date = table[i][1]
          /\ tr_expenses[i].amount = table[i][2]
          /\ tr_expenses[i].description = table[i][3]

\* The save came before each of the three refreshes.
SavedBeforeRefresh ==
    \A refresh \in {"update_display", "update_metrics", "update_tooltip"} :
        \E i, j \in 1..Len(ui_log) :
            /\ i < j
            /\ ui_log[i] = "save_data"
            /\ ui_log[j] = refresh

\* What is on disk is the tracker's list and total.
SavedIsCurrent ==
    /\ disk.expenses = tr_expenses
    /\ disk.monthly_total = tr_monthly_total

\* C7 (as stated): after every table change the tracker's list equals the
\* table's list in the same order, monthly_total is the sum of the amounts
\* of the expenses within the calendar month being tracked, and the data is
\* saved before the display, the metrics and the tooltip are refreshed.
C7_TotalOfTrackedMonth ==
    ui_log # <<>> =>
        /\ SameAsTable
        /\ tr_monthly_total = SumRows(SelectSeq(table, InTrackedMonth))
        /\ SavedBeforeRefresh /\ SavedIsCurrent

\* C7 (amended): after every table change the tracker's list equals the
\* table's list in the same order, monthly_total is the sum of the amounts
\* of every expense in that list, whatever its date, and the data is saved
\* before the display, the metrics and the tooltip are refreshed.
C7_TotalOfWholeList ==
    ui_log # <<>> =>
        /\ SameAsTable
        /\ tr_monthly_total = SumRows(table)
        /\ SavedBeforeRefresh /\ SavedIsCurrent

\* C7 witness: a delete has left a table of two rows, one of them dated
\* outside the tracked month.
C7_Witness ==
    /\ status = "EXPENSE_DELETED"
    /\ Len(table) = 2
    /\ \E i \in 1..2 : ~InTrackedMonth(table[i])
    /\ \E i \in 1..2 : InTrackedMonth(table[i])

\* -------------------------------------------------------------- archive mode

MaxDays == 2

\* datetime.now().strftime('%Y-%m')
strftime_Y_m(dt) == [Y |-> dt.year, M |-> dt.month]

\* year, month = map(int, viewed_month.split('-'))
split_month(viewed_month) == <<viewed_month.Y, viewed_month.M>>

\* calendar.monthrange(year, month)[1]
monthrange_days(year, month) ==
    IF month = 2 THEN (IF IsLeap(year) THEN 29 ELSE 28)
    ELSE IF month \in {4, 6, 9, 11} THEN 30 ELSE 31

\* ArchiveModeManager.is_archive_mode; clock is what datetime.now() gives
\* when the call reads it.
is_archive_mode(viewed_month, clock) ==
    IF viewed_month = None THEN FALSE
    ELSE viewed_month # strftime_Y_m(clock)

\* get_context_date with February taken as 28 days in every year.
get_context_date_no_leap(viewed_month, first_read, second_read) ==
    IF is_archive_mode(viewed_month, first_read)
    THEN LET ym == split_month(viewed_month)
             last_day == IF ym[2] = 2 THEN 28
                         ELSE IF ym[2] \in {4, 6, 9, 11} THEN 30 ELSE 31
         IN  [year |-> ym[1], month |-> ym[2], day |-> last_day, hour |-> 0]
    ELSE second_read

\* ArchiveModeManager.get_context_date.  The clock is read twice: by
\* is_archive_mode (first_read) and, in normal mode, by the datetime.now()
\* that is returned (second_read).
get_context_date(viewed_month, first_read, second_read) ==
    IF is_archive_mode(viewed_month, first_read)
    THEN LET ym == split_month(viewed_month)
             last_day == monthrange_days(ym[1], ym[2])
         IN  [year |-> ym[1], month |-> ym[2], day |-> last_day, hour |-> 0]
    ELSE second_read

\* _apply_archive_mode: the add button and the Quick Add section.
_apply_archive_mode == [add_btn |-> "disabled", quick_add |-> FALSE]

\* _apply_normal_mode: the add button and the Quick Add section.
_apply_normal_mode == [add_btn |-> "normal", quick_add |-> TRUE]

\* ExpenseData.from_dict
from_dict(e) == ExpenseData(e.date, e.amount, e.description)

\* table_manager.load_expenses(expenses): the table's rows are replaced by
\* the expenses handed over, in their order.
RECURSIVE load_expenses(_)
load_expenses(exps) ==
    IF exps = <<>> THEN <<>>
    ELSE <<from_dict(Head(exps))>> \o load_expenses(Tail(exps))

\* page_manager.is_on_page(name)
is_on_page(current_page, name) == current_page = name

\* ArchiveModeManager.refresh_ui, on a manager built with all its parts: the
\* branch is taken on the tracker's viewing_mode, the display is updated,
\* and with the expense list page showing the table is loaded again from
\* the tracker's expenses and the metrics are updated.
refresh_ui(viewing_mode, current_page, tracker_expenses, table_expenses) ==
    LET ui == IF viewing_mode = "archive" THEN _apply_archive_mode ELSE _apply_normal_mode
        on_list == is_on_page(current_page, "expense_list")
    IN  [ add_btn |-> ui.add_btn,
          quick_add |-> ui.quick_add,
          table |-> IF on_list THEN load_expenses(tracker_expenses) ELSE table_expenses,
          calls |-> <<"update_display">>
                    \o (IF on_list THEN <<"load_expenses", "update_metrics">> ELSE <<>>) ]

\* The months the month viewer offers.
ViewableMonths ==
    { [Y |-> 2023, M |-> 2], [Y |-> 2024, M |-> 1], [Y |-> 2024, M |-> 2],
      [Y |-> 2024, M |-> 3], [Y |-> 2024, M |-> 4], [Y |-> 2100, M |-> 2] }

\* The expenses kept for a month: two for February 2024, one for January
\* 2024, none for the other months.
MonthExpenses(m) ==
    IF m = [Y |-> 2024, M |-> 2]
    THEN <<[date |-> DateStr(2024, 2, 10), amount |-> 1000, description |-> "rent"],
           [date |-> DateStr(2024, 2, 20), amount |-> 250, description |-> "food"]>>
    ELSE IF m = [Y |-> 2024, M |-> 1]
    THEN <<[date |-> DateStr(2024, 1, 5), amount |-> 400, description |-> "fuel"]>>
    ELSE <<>>

Pages == {"main", "expense_list"}

\* The tracker as the application starts on the evening of 2024-02-28, with
\* the month's expenses loaded and shown in the table; the viewed month may
\* not have been set yet.
InitArchive ==
    /\ now = DateTime(2024, 2, 28, 22)
    /\ tr_current_month = strftime_Y_m(now)
    /\ tr_viewed_month \in {None, strftime_Y_m(now)}
    /\ tr_viewing_mode = "current"
    /\ add_btn = "normal"
    /\ quick_add = TRUE
    /\ ar_last = "none"
    /\ ar_ctx = None
    /\ days_run = 0
    /\ page = "main"
    /\ ar_calls = <<>>
    /\ tr_expenses = MonthExpenses(strftime_Y_m(now))
    /\ tr_monthly_total = SumAmounts(tr_expenses)
    /\ table = load_expenses(tr_expenses)
    /\ disk = save_data(tr_expenses, tr_monthly_total)
    /\ prev_count = Len(tr_expenses)
    /\ status = "none"
    /\ ui_log = <<>>
    /\ IdleAnalytics /\ IdleTrend /\ IdleSettings /\ IdleOthers

\* The user switches to a month: the tracker records the month and whether
\* it is its current month and takes up the month's expenses, and the
\* interface is refreshed.
SwitchMonth ==
    \E m \in ViewableMonths :
        LET mode == IF m = tr_current_month THEN "current" ELSE "archive"
            ui == refresh_ui(mode, page, MonthExpenses(m), table)
        IN  /\ tr_viewed_month' = m
            /\ tr_viewing_mode' = mode
            /\ tr_expenses' = MonthExpenses(m)
            /\ tr_monthly_total' = SumAmounts(MonthExpenses(m))
            /\ add_btn' = ui.add_btn
            /\ quick_add' = ui.quick_add
            /\ table' = ui.table
            /\ ar_calls' = ui.calls
            /\ ar_last' = "refresh_ui"
            /\ UNCHANGED <<now, tr_current_month, ar_ctx, days_run, page,
                           disk, prev_count, status, ui_log,
                           analyticsVars, trendVars, settingsVars, otherVars>>

\* The user goes to a page.
ShowPage ==
    \E p \in Pages :
        /\ p # page
        /\ page' = p
        /\ ar_last' = "show_page"
        /\ UNCHANGED <<now, tr_current_month, tr_viewed_month, tr_viewing_mode,
                       add_btn, quick_add, ar_ctx, days_run, ar_calls,
                       analyticsVars, trendVars, tableVars, settingsVars, otherVars>>

\* refresh_ui is called on the tracker as it stands.
RefreshUi ==
    LET ui == refresh_ui(tr_viewing_mode, page, tr_expenses, table)
    IN  /\ add_btn' = ui.add_btn
        /\ quick_add' = ui.quick_add
        /\ table' = ui.table
        /\ ar_calls' = ui.calls
        /\ ar_last' = "refresh_ui"
        /\ UNCHANGED <<now, tr_current_month, tr_viewed_month, tr_viewing_mode,
                       ar_ctx, days_run, page,
                       tr_expenses, tr_monthly_total, disk, prev_count, status, ui_log,
                       analyticsVars, trendVars, settingsVars, otherVars>>

\* The first moment of the day after.
next_midnight(dt) == [PlusDays(dt, 1) EXCEPT !.hour = 0]

\* The dashboard asks for the context date and the day progress on it.
\* Midnight may pass between the two readings of the clock that
\* get_context_date makes.
GetContextDate ==
    \E midnight_passes \in BOOLEAN :
        LET first_read == now
            second_read == IF midnight_passes THEN next_midnight(now) ELSE now
            context_date == get_context_date(tr_viewed_month, first_read, second_read)
        IN  /\ midnight_passes => days_run < MaxDays
            /\ now' = second_read
            /\ days_run' = IF midnight_passes THEN days_run + 1 ELSE days_run
            /\ ar_ctx' = [context_date |-> context_date,
                          day_progress |-> calculate_day_progress(context_date),
                          first_read |-> first_read]
            /\ ar_last' = "get_context_date"
            /\ UNCHANGED <<tr_current_month, tr_viewed_month, tr_viewing_mode,
                           add_btn, quick_add, page, ar_calls,
                           analyticsVars, trendVars, tableVars, settingsVars, otherVars>>

\* A day passes while the application stays open.
Tick ==
    /\ days_run < MaxDays
    /\ now' = PlusDays(now, 1)
    /\ days_run' = days_run + 1
    /\ ar_last' = "tick"
    /\ UNCHANGED <<tr_current_month, tr_viewed_month, tr_viewing_mode,
                   add_btn, quick_add, ar_ctx, page, ar_calls,
                   analyticsVars, trendVars, tableVars, settingsVars, otherVars>>

NextArchive == SwitchMonth \/ ShowPage \/ RefreshUi \/ GetContextDate \/ Tick

SpecArchive == InitArchive /\ [][NextArchive]_vars

\* --------------------------------------------------- claims on archive mode

\* The month of today's date.
MonthOfToday == [Y |-> now.year, M |-> now.month]

\* C8: after every refresh_ui, the add button and the Quick Add section are
\* disabled whenever the viewed month is not the current month
\* (is_archive_mode() is true), and both are enabled after a refresh_ui with
\* the viewed month equal to the current month.
C8_AddDisabledInArchiveMode ==
    ar_last = "refresh_ui" =>
        /\ (tr_viewed_month # None /\ tr_viewed_month # MonthOfToday)
              => (add_btn = "disabled" /\ quick_add = FALSE)
        /\ tr_viewed_month = MonthOfToday
              => (add_btn = "normal" /\ quick_add = TRUE)

\* The last day of a month: the day of the month that is a calendar date
\* while the day after it is not.
LastDayOf(key) ==
    CHOOSE d \in 28..31 :
        /\ IsCalendarDate([Y |-> key.Y, M |-> key.M, D |-> d])
        /\ ~IsCalendarDate([Y |-> key.Y, M |-> key.M, D |-> d + 1])

\* The current month as get_context_date found it when it was called.
MonthAtCall == [Y |-> ar_ctx.first_read.year, M |-> ar_ctx.first_read.month]

\* C9: get_context_date returns the last calendar day of the viewed month
\* whenever the viewed month differs from the current month (the month of
\* the clock as the call reads it), and today's date (the clock as the call
\* returns) when the viewed month is the current month or is unset; in
\* archive mode calculate_day_progress on the context date is
\* (total_days, total_days).
C9_ContextDate ==
    ar_last = "get_context_date" =>
        IF tr_viewed_month # None /\ tr_viewed_month # MonthAtCall
        THEN /\ ar_ctx.context_date.year = tr_viewed_month.Y
             /\ ar_ctx.context_date.month = tr_viewed_month.M
             /\ ar_ctx.context_date.day = LastDayOf(tr_viewed_month)
             /\ ar_ctx.day_progress =
                   <<LastDayOf(tr_viewed_month), LastDayOf(tr_viewed_month)>>
        ELSE /\ ar_ctx.context_date = now
             /\ ar_ctx.day_progress[1] = now.day

\* C9 witness: the context date asked for while leap February 2024 is viewed
\* from March.
C9_Witness ==
    /\ ar_last = "get_context_date"
    /\ tr_viewed_month = [Y |-> 2024, M |-> 2]
    /\ now.month = 3
    /\ ar_ctx.day_progress = <<29, 29>>

\* ----------------------------------------------------------- settings manager

\* A file of the settings directory: whether it exists and the chunks
\* written to it.
OnDisk(lines) == [exists |-> TRUE, lines |-> lines]
Absent == [exists |-> FALSE, lines |-> <<>>]

\* str.strip on the sampled values.
strip(value) ==
    IF value = " 1" THEN "1"
    ELSE IF value = " Rent " THEN "Rent"
    ELSE IF value = "re " THEN "re"
    ELSE IF value = " " THEN ""
    ELSE value

\* ConfigParser.optionxform (str.lower) on the sampled keys.
optionxform(key) == IF key = "Theme" THEN "theme" ELSE key

\* ConfigParser.has_section
has_section(config, section) ==
    \E i \in 1..Len(config) : config[i].name = section

\* ConfigParser.add_section
add_section(config, section) ==
    Append(config, [name |-> section, options |-> <<>>])

\* The options of a section with a value stored under a key: a key already
\* there keeps its place, a new key goes last.
SetInOptions(options, key, value) ==
    IF \E j \in 1..Len(options) : options[j].key = key
    THEN [j \in 1..Len(options) |->
            IF options[j].key = key THEN [key |-> key, value |-> value]
            ELSE options[j]]
    ELSE Append(options, [key |-> key, value |-> value])

\* ConfigParser.set
config_set(config, section, key, value) ==
    [i \in 1..Len(config) |->
        IF config[i].name = section
        THEN [config[i] EXCEPT
                 !.options = SetInOptions(@, optionxform(key), value)]
        ELSE config[i]]

\* BasicInterpolation.before_set on the sampled values: a '%' that starts
\* neither '%%' nor '%(name)s' is a ValueError.
invalid_interpolation_syntax(value) == value = "50%"

\* SettingsManager.set with auto_save=False: the new configuration and the
\* value returned.  A value ConfigParser.set refuses raises after the section
\* has been created.
set(config, section, key, value) ==
    IF section = "" \/ key = ""
    THEN [config |-> config, ret |-> FALSE]
    ELSE LET with_section == IF has_section(config, section) THEN config
                             ELSE add_section(config, section)
             str_value == strip(value)
         IN  IF invalid_interpolation_syntax(str_value)
             THEN [config |-> with_section, ret |-> FALSE]
             ELSE [config |-> config_set(with_section, section, key, str_value),
                   ret |-> TRUE]

\* The chunks ConfigParser.write hands to the file for one section: the
\* header, one chunk for every option, and an empty line.
RECURSIVE OptionChunks(_)
OptionChunks(options) ==
    IF options = <<>> THEN <<>>
    ELSE <<[kind |-> "option", text |-> <<Head(options).key, " = ", Head(options).value>>]>>
         \o OptionChunks(Tail(options))

SectionChunks(section) ==
    <<[kind |-> "header", text |-> <<"[", section.name, "]">>]>>
    \o OptionChunks(section.options)
    \o <<[kind |-> "blank", text |-> <<>>]>>

\* ConfigParser.write: the chunks, in order.
RECURSIVE config_write(_)
config_write(config) ==
    IF config = <<>> THEN <<>>
    ELSE SectionChunks(Head(config)) \o config_write(Tail(config))

\* tempfile.mkstemp: a new, empty file in the settings directory.
mkstemp == OnDisk(<<>>)

\* One chunk written straight into the settings file, which is truncated at
\* the first chunk.
write_chunk_in_place(file, temp, chunk) ==
    [file |-> IF temp.lines = <<>> THEN OnDisk(<<chunk>>)
              ELSE OnDisk(Append(file.lines, chunk)),
     temp |-> [temp EXCEPT !.lines = Append(@, chunk)]]

\* One chunk of config.write(temp_file): it goes to the temp file.
write_chunk(file, temp, chunk) ==
    [file |-> file,
     temp |-> [temp EXCEPT !.lines = Append(@, chunk)]]

\* os.replace(temp_path, settings_file)
os_replace(file, temp) == [file |-> OnDisk(temp.lines), temp |-> Absent]

\* shutil.move(temp_path, settings_file) within one directory
shutil_move(file, temp) == [file |-> OnDisk(temp.lines), temp |-> Absent]

\* The replace step: os.replace over an existing settings file, shutil.move
\* when there is none.
replace_target(file, temp) ==
    IF file.exists THEN os_replace(file, temp) ELSE shutil_move(file, temp)

\* The clean-up of the inner except: the temp file is removed if it exists.
remove_temp(temp) == IF temp.exists THEN Absent ELSE temp

\* A save is between its first and its last step.
SaveUnderWay == s_step \in {"mkstemp", "write", "close"}

Sections == {"Export", "Logging", ""}
Keys == {"theme", "Theme", ""}
Values == {"1", " 1", "2"}

InitSettings ==
    /\ now = DateTime(2024, 3, 1, 9)
    /\ IdleSettings
    /\ IdleAnalytics /\ IdleTrend /\ IdleTable /\ IdleArchive /\ IdleOthers

\* set(section, key, value, auto_save=False), between saves.
Set ==
    /\ ~SaveUnderWay
    /\ \E section \in Sections, key \in Keys, value \in Values :
          s_config' = set(s_config, section, key, value).config
    /\ UNCHANGED <<s_file, s_temp, s_step, s_ret, s_prev, s_new, s_failed,
                   now, analyticsVars, trendVars, tableVars, archiveVars, otherVars>>

\* save(): the temp file is created.
SaveMkstemp ==
    /\ ~SaveUnderWay
    /\ s_temp' = mkstemp
    /\ s_step' = "mkstemp"
    /\ s_ret' = "none"
    /\ s_prev' = s_file
    /\ s_new' = config_write(s_config)
    /\ UNCHANGED <<s_config, s_file, s_failed,
                   now, analyticsVars, trendVars, tableVars, archiveVars, otherVars>>

\* save(): the temp file cannot be created; the outer except returns False.
SaveMkstempFails ==
    /\ ~SaveUnderWay
    /\ s_step' = "mkstemp_failed"
    /\ s_ret' = "False"
    /\ s_prev' = s_file
    /\ s_new' = config_write(s_config)
    /\ UNCHANGED <<s_config, s_file, s_temp, s_failed,
                   now, analyticsVars, trendVars, tableVars, archiveVars, otherVars>>

\* save(): the next chunk of the configuration is written.
SaveWrite ==
    /\ s_step \in {"mkstemp", "write"}
    /\ Len(s_temp.lines) < Len(s_new)
    /\ LET w == write_chunk(s_file, s_temp, s_new[Len(s_temp.lines) + 1])
       IN  /\ s_file' = w.file
           /\ s_temp' = w.temp
    /\ s_step' = "write"
    /\ UNCHANGED <<s_config, s_ret, s_prev, s_new, s_failed,
                   now, analyticsVars, trendVars, tableVars, archiveVars, otherVars>>

\* save(): the writing is complete and the temp file is closed.
SaveClose ==
    /\ s_step \in {"mkstemp", "write"}
    /\ Len(s_temp.lines) = Len(s_new)
    /\ s_step' = "close"
    /\ UNCHANGED <<s_config, s_file, s_temp, s_ret, s_prev, s_new, s_failed,
                   now, analyticsVars, trendVars, tableVars, archiveVars, otherVars>>

\* save(): a write (or the close) raises; the temp file is removed and the
\* outer except returns False.
SaveWriteFails ==
    /\ s_step \in {"mkstemp", "write"}
    /\ s_temp' = remove_temp(s_temp)
    /\ s_step' = "write_failed"
    /\ s_ret' = "False"
    /\ UNCHANGED <<s_config, s_file, s_prev, s_new, s_failed,
                   now, analyticsVars, trendVars, tableVars, archiveVars, otherVars>>

\* save(): the temp file takes the place of the settings file.
SaveReplace ==
    /\ s_step = "close"
    /\ LET r == replace_target(s_file, s_temp)
       IN  /\ s_file' = r.file
           /\ s_temp' = r.temp
    /\ s_step' = "replace"
    /\ s_ret' = "True"
    /\ UNCHANGED <<s_config, s_prev, s_new, s_failed,
                   now, analyticsVars, trendVars, tableVars, archiveVars, otherVars>>

\* save(): the replace raises; the temp file is removed and the outer
\* except returns False.
SaveReplaceFails ==
    /\ s_step = "close"
    /\ s_temp' = remove_temp(s_temp)
    /\ s_step' = "replace_failed"
    /\ s_ret' = "False"
    /\ UNCHANGED <<s_config, s_file, s_prev, s_new, s_failed,
                   now, analyticsVars, trendVars, tableVars, archiveVars, otherVars>>

NextSettings ==
    \/ Set
    \/ SaveMkstemp \/ SaveMkstempFails
    \/ SaveWrite \/ SaveClose \/ SaveWriteFails
    \/ SaveReplace \/ SaveReplaceFails

SpecSettings == InitSettings /\ [][NextSettings]_vars

\* ----------------------------------------------- claims on the settings file

\* C10: at every point of a save, a failure at any step included, the
\* settings file is either as the save found it (absent, or its complete
\* previous content) or the complete new content; after a failed save no
\* temp file is left and save has returned False, and a save that went
\* through has returned True with the new content on disk.
C10_AtomicSave ==
    /\ s_file = s_prev \/ s_file = [exists |-> TRUE, lines |-> s_new]
    /\ s_step \in {"mkstemp_failed", "write_failed", "replace_failed"} =>
          /\ s_ret = "False"
          /\ ~s_temp.exists
          /\ s_file = s_prev
    /\ s_step = "replace" =>
          /\ s_ret = "True"
          /\ ~s_temp.exists
          /\ s_file = [exists |-> TRUE, lines |-> s_new]

\* C10 witness: a save over an existing settings file failed at the replace
\* step, after the whole of a different content had gone to the temp file.
C10_Witness ==
    /\ s_step = "replace_failed"
    /\ s_ret = "False"
    /\ s_prev.exists
    /\ s_new # s_prev.lines
    /\ Len(s_new) > 3

\* ------------------------------------------------ settings manager: the calls

\* What a call returns: a bool, a string, a number, a dictionary, or None.
RetBool(b) == [bool |-> b]
RetStr(text) == [str |-> text]
RetInt(n) == [int |-> n]
RetFloat(num, den) == [float |-> Quot(num, den)]
RetDict(options) == [dict |-> options]

\* The options of a section of the configuration (none if it is missing).
OptionsOf(config, section) ==
    IF has_section(config, section)
    THEN config[CHOOSE i \in 1..Len(config) : config[i].name = section].options
    ELSE <<>>

\* ConfigParser.has_option
has_option(config, section, key) ==
    \E j \in 1..Len(OptionsOf(config, section)) :
        OptionsOf(config, section)[j].key = optionxform(key)

\* The raw text stored under a key that is there.
RawValue(options, key) ==
    options[CHOOSE j \in 1..Len(options) : options[j].key = key].value

\* BasicInterpolation.before_get on a text without a reference: '%%' stands
\* for '%', a lone '%' is an InterpolationSyntaxError.
interpolate_plain(raw) ==
    IF raw = "50%%" THEN [ok |-> TRUE, text |-> "50%"]
    ELSE IF raw = "50%" THEN [ok |-> FALSE, text |-> raw]
    ELSE [ok |-> TRUE, text |-> raw]

\* BasicInterpolation.before_get on the sampled values: '%(theme)s' stands for
\* the interpolated value of the section's option theme; a missing option
\* and a reference to itself are errors.
interpolate(options, raw) ==
    IF raw = "%(theme)s"
    THEN IF ~(\E j \in 1..Len(options) : options[j].key = "theme")
         THEN [ok |-> FALSE, text |-> raw]
         ELSE IF RawValue(options, "theme") = "%(theme)s"
         THEN [ok |-> FALSE, text |-> raw]
         ELSE interpolate_plain(RawValue(options, "theme"))
    ELSE interpolate_plain(raw)

\* ConfigParser.get on an option that is there: the interpolated value, or
\* the error raised.
config_get(config, section, key) ==
    interpolate(OptionsOf(config, section),
                RawValue(OptionsOf(config, section), optionxform(key)))

\* str.lower on the sampled values.
str_lower(text) ==
    IF text = "Yes" THEN "yes"
    ELSE IF text = "Rent" THEN "rent"
    ELSE IF text = "RE " THEN "re "
    ELSE text

\* int(value) on the sampled values (ValueError otherwise).
int_of(text) ==
    IF text = "1" THEN [ok |-> TRUE, n |-> 1]
    ELSE IF text = "2" THEN [ok |-> TRUE, n |-> 2]
    ELSE IF text = "12" THEN [ok |-> TRUE, n |-> 12]
    ELSE [ok |-> FALSE, n |-> 0]

\* float(value) on the sampled values (ValueError otherwise).
float_of(text) ==
    IF int_of(text).ok THEN [ok |-> TRUE, num |-> int_of(text).n, den |-> 1]
    ELSE IF text = "1.5" THEN [ok |-> TRUE, num |-> 3, den |-> 2]
    ELSE [ok |-> FALSE, num |-> 0, den |-> 1]

\* SettingsManager.get
get(config, section, key, default, value_type) ==
    IF ~has_section(config, section) THEN default
    ELSE IF ~has_option(config, section, key) THEN default
    ELSE LET got == config_get(config, section, key)
             value == got.text
         IN  IF ~got.ok THEN default
             ELSE IF value_type = "bool"
             THEN RetBool(str_lower(value) \in {"true", "1", "yes", "on"})
             ELSE IF value_type = "int"
             THEN (IF int_of(value).ok THEN RetInt(int_of(value).n) ELSE default)
             ELSE IF value_type = "float"
             THEN (IF float_of(value).ok
                   THEN RetFloat(float_of(value).num, float_of(value).den)
                   ELSE default)
             ELSE RetStr(value)

\* SettingsManager.has_key
has_key(config, section, key) ==
    has_section(config, section) /\ has_option(config, section, key)

\* ConfigParser.remove_section
remove_section(config, section) ==
    SelectSeq(config, LAMBDA sec : sec.name # section)

\* ConfigParser.remove_option
remove_option(config, section, key) ==
    [i \in 1..Len(config) |->
        IF config[i].name = section
        THEN [config[i] EXCEPT
                 !.options = SelectSeq(@, LAMBDA o : o.key # optionxform(key))]
        ELSE config[i]]

\* An optional key that was supplied.
Key(text) == [key |-> text]

\* SettingsManager.delete with auto_save=False: the new configuration and
\* the value returned.  A key of None deletes the whole section.
delete(config, section, key) ==
    IF key = None
    THEN [config |-> IF has_section(config, section)
                     THEN remove_section(config, section) ELSE config,
          ret |-> TRUE]
    ELSE [config |-> IF has_section(config, section)
                        /\ has_option(config, section, key.key)
                     THEN remove_option(config, section, key.key) ELSE config,
          ret |-> TRUE]

\* SettingsManager.get_section: dict(self.config.items(section)), which
\* interpolates every value and so fails as a whole on one bad value.
get_section(config, section) ==
    IF ~has_section(config, section) THEN RetDict(<<>>)
    ELSE LET options == OptionsOf(config, section)
         IN  IF \E j \in 1..Len(options) : ~interpolate(options, options[j].value).ok
             THEN RetDict(<<>>)
             ELSE RetDict([j \in 1..Len(options) |->
                            [key |-> options[j].key,
                             value |-> interpolate(options, options[j].value).text]])

\* ConfigParser.read on a file ConfigParser.write wrote: every section of
\* the file is added if it is missing, every option is stored as it stands.
RECURSIVE config_read(_, _, _)
config_read(config, lines, section) ==
    IF lines = <<>> THEN config
    ELSE LET chunk == Head(lines)
         IN  IF chunk.kind = "header"
             THEN config_read(IF has_section(config, chunk.text[2]) THEN config
                              ELSE add_section(config, chunk.text[2]),
                              Tail(lines), chunk.text[2])
             ELSE IF chunk.kind = "option"
             THEN config_read(config_set(config, section, chunk.text[1], chunk.text[3]),
                              Tail(lines), section)
             ELSE config_read(config, Tail(lines), section)

\* SettingsManager.load: the file, if there is one, is read into the
\* configuration.
load(config, file) ==
    IF file.exists THEN config_read(config, file.lines, "") ELSE config

\* SettingsManager.clear_all: self.config = configparser.ConfigParser()
clear_all == <<>>

\* ---------------------------------------------- settings manager: the threads

MaxCalls == 1

\* threading.Lock with no exclusion: acquire succeeds whoever holds it.
lock_is_free_always(lock) == TRUE

\* threading.Lock.acquire returns only while nobody holds the lock, the
\* calling thread included (the lock is not re-entrant).
lock_is_free(lock) == lock = 0

\* The calls the threads make.
ThreadOps ==
    { [op |-> "set", section |-> "Export", key |-> "theme", value |-> "1"],
      [op |-> "set", section |-> "Export", key |-> "font", value |-> "2"],
      [op |-> "set", section |-> "Logging", key |-> "theme", value |-> "2"],
      [op |-> "set", section |-> "", key |-> "theme", value |-> "1"],
      [op |-> "delete", section |-> "Export", optional_key |-> Key("theme")],
      [op |-> "delete", section |-> "Export", optional_key |-> None],
      [op |-> "get", section |-> "Export", key |-> "theme"],
      [op |-> "has_key", section |-> "Export", key |-> "font"],
      [op |-> "get_section", section |-> "Export"],
      [op |-> "save"],
      [op |-> "load"],
      [op |-> "clear_all", auto_save |-> TRUE],
      [op |-> "clear_all", auto_save |-> FALSE] }

\* The configurations a manager starts the concurrent calls with.
StartConfigs ==
    { <<>>,
      <<[name |-> "Export", options |-> <<[key |-> "theme", value |-> "2"]>>]>> }

\* The steps of a call made with the lock held.
Inside == {"body", "save_acquire", "save_blocked", "mkstemp", "write", "replace",
           "release"}

InitThreads ==
    /\ now = DateTime(2024, 3, 1, 9)
    /\ s_config \in StartConfigs
    /\ s_file \in {Absent, OnDisk(config_write(s_config))}
    /\ s_temp = Absent
    /\ s_step = "none"
    /\ s_ret = "none"
    /\ s_prev = Absent
    /\ s_new = <<>>
    /\ s_failed = 0
    /\ IdleThreads
    /\ IdleCalls /\ IdleSingleton /\ IdleStatus /\ IdleHistory
    /\ IdleAnalytics /\ IdleTrend /\ IdleTable /\ IdleArchive

\* What a thread step leaves alone besides the manager's own state.
ThreadFrame ==
    UNCHANGED <<now, analyticsVars, trendVars, tableVars, archiveVars,
                s_temp, s_step, s_ret, s_prev, s_new, s_failed,
                callVars, singletonVars, statusVars, historyVars>>

\* A thread calls an operation of the manager.
Call(t) ==
    /\ th_pc[t] = "idle"
    /\ th_calls[t] < MaxCalls
    /\ \E call \in ThreadOps : th_op' = [th_op EXCEPT ![t] = call]
    /\ th_pc' = [th_pc EXCEPT ![t] = "acquire"]
    /\ th_ret' = [th_ret EXCEPT ![t] = "none"]
    /\ th_calls' = [th_calls EXCEPT ![t] = @ + 1]
    /\ UNCHANGED <<th_lock, th_temp, s_config, s_file>>
    /\ ThreadFrame

\* with self._lock: the thread gets the lock.
Acquire(t) ==
    /\ th_pc[t] = "acquire"
    /\ lock_is_free(th_lock)
    /\ th_lock' = t
    /\ th_pc' = [th_pc EXCEPT ![t] = "body"]
    /\ UNCHANGED <<th_op, th_ret, th_temp, th_calls, s_config, s_file>>
    /\ ThreadFrame

\* The body of set: the value is stored, then saved.
BodySet(t) ==
    /\ th_pc[t] = "body" /\ th_op[t].op = "set"
    /\ LET r == set(s_config, th_op[t].section, th_op[t].key, th_op[t].value)
       IN  /\ s_config' = r.config
           /\ th_pc' = [th_pc EXCEPT ![t] = IF r.ret THEN "mkstemp" ELSE "release"]
           /\ th_ret' = [th_ret EXCEPT ![t] = IF r.ret THEN @ ELSE "False"]
    /\ UNCHANGED <<th_lock, th_op, th_temp, th_calls, s_file>>
    /\ ThreadFrame

\* The body of delete: the key or section is removed, then saved.
BodyDelete(t) ==
    /\ th_pc[t] = "body" /\ th_op[t].op = "delete"
    /\ s_config' = delete(s_config, th_op[t].section, th_op[t].optional_key).config
    /\ th_pc' = [th_pc EXCEPT ![t] = "mkstemp"]
    /\ UNCHANGED <<th_lock, th_op, th_ret, th_temp, th_calls, s_file>>
    /\ ThreadFrame

\* The body of get, has_key and get_section: the configuration is read.
BodyRead(t) ==
    /\ th_pc[t] = "body" /\ th_op[t].op \in {"get", "has_key", "get_section"}
    /\ th_ret' = [th_ret EXCEPT ![t] = "read"]
    /\ th_pc' = [th_pc EXCEPT ![t] = "release"]
    /\ UNCHANGED <<th_lock, th_op, th_temp, th_calls, s_config, s_file>>
    /\ ThreadFrame

\* The body of save.
BodySave(t) ==
    /\ th_pc[t] = "body" /\ th_op[t].op = "save"
    /\ th_pc' = [th_pc EXCEPT ![t] = "mkstemp"]
    /\ UNCHANGED <<th_lock, th_op, th_ret, th_temp, th_calls, s_config, s_file>>
    /\ ThreadFrame

\* The body of load.
BodyLoad(t) ==
    /\ th_pc[t] = "body" /\ th_op[t].op = "load"
    /\ s_config' = load(s_config, s_file)
    /\ th_ret' = [th_ret EXCEPT ![t] = "True"]
    /\ th_pc' = [th_pc EXCEPT ![t] = "release"]
    /\ UNCHANGED <<th_lock, th_op, th_temp, th_calls, s_file>>
    /\ ThreadFrame

\* The body of clear_all: the configuration is replaced by an empty one;
\* with auto_save the method then calls self.save(), which takes the lock.
BodyClearAll(t) ==
    /\ th_pc[t] = "body" /\ th_op[t].op = "clear_all"
    /\ s_config' = clear_all
    /\ th_pc' = [th_pc EXCEPT ![t] =
                    IF th_op[t].auto_save THEN "save_acquire" ELSE "release"]
    /\ th_ret' = [th_ret EXCEPT ![t] = IF th_op[t].auto_save THEN @ ELSE "True"]
    /\ UNCHANGED <<th_lock, th_op, th_temp, th_calls, s_file>>
    /\ ThreadFrame

\* save() called from clear_all: with self._lock.  The thread gets the lock
\* if it is free and waits for it otherwise.
SaveAcquire(t) ==
    /\ th_pc[t] \in {"save_acquire", "save_blocked"}
    /\ IF lock_is_free(th_lock)
       THEN /\ th_lock' = t
            /\ th_pc' = [th_pc EXCEPT ![t] = "mkstemp"]
       ELSE /\ th_lock' = th_lock
            /\ th_pc' = [th_pc EXCEPT ![t] = "save_blocked"]
    /\ UNCHANGED <<th_op, th_ret, th_temp, th_calls, s_config, s_file>>
    /\ ThreadFrame

\* _save_unlocked: the temp file is created.
ThreadMkstemp(t) ==
    /\ th_pc[t] = "mkstemp"
    /\ th_temp' = [th_temp EXCEPT ![t] = mkstemp]
    /\ th_pc' = [th_pc EXCEPT ![t] = "write"]
    /\ UNCHANGED <<th_lock, th_op, th_ret, th_calls, s_config, s_file>>
    /\ ThreadFrame

\* _save_unlocked: the configuration is written to the temp file.
ThreadWrite(t) ==
    /\ th_pc[t] = "write"
    /\ th_temp' = [th_temp EXCEPT ![t] = OnDisk(config_write(s_config))]
    /\ th_pc' = [th_pc EXCEPT ![t] = "replace"]
    /\ UNCHANGED <<th_lock, th_op, th_ret, th_calls, s_config, s_file>>
    /\ ThreadFrame

\* _save_unlocked: the temp file takes the place of the settings file.
ThreadReplace(t) ==
    /\ th_pc[t] = "replace"
    /\ s_file' = replace_target(s_file, th_temp[t]).file
    /\ th_temp' = [th_temp EXCEPT ![t] = Absent]
    /\ th_ret' = [th_ret EXCEPT ![t] = "True"]
    /\ th_pc' = [th_pc EXCEPT ![t] = "release"]
    /\ UNCHANGED <<th_lock, th_op, th_calls, s_config>>
    /\ ThreadFrame

\* _save_unlocked: a step raises; the temp file is removed and False
\* returned.
ThreadSaveFails(t) ==
    /\ th_pc[t] \in {"mkstemp", "write", "replace"}
    /\ th_temp' = [th_temp EXCEPT ![t] = remove_temp(@)]
    /\ th_ret' = [th_ret EXCEPT ![t] = "False"]
    /\ th_pc' = [th_pc EXCEPT ![t] = "release"]
    /\ UNCHANGED <<th_lock, th_op, th_calls, s_config, s_file>>
    /\ ThreadFrame

\* The with block ends: the lock is released and the call returns.
Release(t) ==
    /\ th_pc[t] = "release"
    /\ th_lock' = 0
    /\ th_pc' = [th_pc EXCEPT ![t] = "idle"]
    /\ UNCHANGED <<th_op, th_ret, th_temp, th_calls, s_config, s_file>>
    /\ ThreadFrame

ThreadStep(t) ==
    \/ Call(t) \/ Acquire(t)
    \/ BodySet(t) \/ BodyDelete(t) \/ BodyRead(t) \/ BodySave(t)
    \/ BodyLoad(t) \/ BodyClearAll(t)
    \/ SaveAcquire(t)
    \/ ThreadMkstemp(t) \/ ThreadWrite(t) \/ ThreadReplace(t) \/ ThreadSaveFails(t)
    \/ Release(t)

NextThreads == \E t \in Threads : ThreadStep(t)

SpecThreads == InitThreads /\ [][NextThreads]_vars

\* The threads are scheduled fairly.
SpecThreadsFair == SpecThreads /\ \A t \in Threads : WF_vars(ThreadStep(t))

\* ------------------------------------------------- claims on the threads

\* The settings file holds a value under a key of a section: the option's
\* chunk follows the section's header with no other header in between.
FileHolds(section, key, value) ==
    \E i, j \in 1..Len(s_file.lines) :
        /\ i < j
        /\ s_file.lines[i] = [kind |-> "header", text |-> <<"[", section, "]">>]
        /\ s_file.lines[j] = [kind |-> "option", text |-> <<key, " = ", value>>]
        /\ \A k \in (i + 1)..(j - 1) : s_file.lines[k].kind # "header"

\* The configuration in memory holds a value under a key of a section.
MemoryHolds(section, key, value) ==
    \E i \in 1..Len(s_config) :
        /\ s_config[i].name = section
        /\ \E j \in 1..Len(s_config[i].options) :
              s_config[i].options[j] = [key |-> key, value |-> value]

\* Both threads have made one call, a set each, on different keys, and
\* both calls have returned True.
BothSetsReturnedTrue ==
    /\ \A t \in Threads :
          /\ th_calls[t] = 1
          /\ th_pc[t] = "idle"
          /\ th_op[t].op = "set"
          /\ th_ret[t] = "True"
    /\ <<th_op[1].section, th_op[1].key>> # <<th_op[2].section, th_op[2].key>>

\* C11: every operation runs while holding the manager's lock, so the
\* operations of concurrent threads never interleave inside one another;
\* after two threads concurrently call set on different keys and both
\* return True, both keys hold their values in memory and in the saved file.
C11_ThreadSafe ==
    /\ \A t \in Threads : th_pc[t] \in Inside => th_lock = t
    /\ \A t, u \in Threads : (th_pc[t] \in Inside /\ th_pc[u] \in Inside) => t = u
    /\ BothSetsReturnedTrue =>
          \A t \in Threads :
              /\ MemoryHolds(th_op[t].section, th_op[t].key, th_op[t].value)
              /\ FileHolds(th_op[t].section, th_op[t].key, th_op[t].value)

\* C11 witness: both threads have set a different key of the same section
\* and the file holds the section with its two options.
C11_Witness ==
    /\ BothSetsReturnedTrue
    /\ th_op[1].section = th_op[2].section
    /\ Len(s_file.lines) = 4

\* C12: clear_all(auto_save=True) always returns: once called it comes back
\* with True or False, the lock released, so that later calls proceed.
C12_ClearAllReturns ==
    \A t \in Threads :
        (th_op[t] = [op |-> "clear_all", auto_save |-> TRUE] /\ th_pc[t] = "acquire")
            ~> (th_pc[t] = "idle" /\ th_ret[t] \in {"True", "False"} /\ th_lock # t)

\* ------------------------------------------------------ get_settings_manager

MaxGets == 2

InitSingleton ==
    /\ now = DateTime(2024, 3, 1, 9)
    /\ IdleSingleton
    /\ IdleCalls /\ IdleThreads /\ IdleStatus /\ IdleHistory
    /\ IdleAnalytics /\ IdleTrend /\ IdleTable /\ IdleArchive /\ IdleSettings

\* What a step of get_settings_manager leaves alone.
SingletonFrame ==
    UNCHANGED <<now, analyticsVars, trendVars, tableVars, archiveVars, settingsVars,
                callVars, threadVars, statusVars, historyVars>>

\* if _settings_instance is None: the thread reads the global.
GsmCheck(t) ==
    /\ g_pc[t] = "idle"
    /\ Len(g_ret[t]) < MaxGets
    /\ g_pc' = [g_pc EXCEPT ![t] = IF g_instance = 0 THEN "construct" ELSE "return"]
    /\ UNCHANGED <<g_instance, g_built, g_new, g_ret>>
    /\ SingletonFrame

\* SettingsManager(settings_file): a new manager is built (and loads the
\* settings file).
GsmConstruct(t) ==
    /\ g_pc[t] = "construct"
    /\ g_built' = g_built + 1
    /\ g_new' = [g_new EXCEPT ![t] = g_built + 1]
    /\ g_pc' = [g_pc EXCEPT ![t] = "assign"]
    /\ UNCHANGED <<g_instance, g_ret>>
    /\ SingletonFrame

\* _settings_instance = <the new manager>
GsmAssign(t) ==
    /\ g_pc[t] = "assign"
    /\ g_instance' = g_new[t]
    /\ g_pc' = [g_pc EXCEPT ![t] = "return"]
    /\ UNCHANGED <<g_built, g_new, g_ret>>
    /\ SingletonFrame

\* return _settings_instance: the global as it is now.
GsmReturn(t) ==
    /\ g_pc[t] = "return"
    /\ g_ret' = [g_ret EXCEPT ![t] = Append(@, g_instance)]
    /\ g_pc' = [g_pc EXCEPT ![t] = "idle"]
    /\ UNCHANGED <<g_instance, g_built, g_new>>
    /\ SingletonFrame

NextSingleton ==
    \E t \in Threads : GsmCheck(t) \/ GsmConstruct(t) \/ GsmAssign(t) \/ GsmReturn(t)

SpecSingleton == InitSingleton /\ [][NextSingleton]_vars

\* C13: every call of get_settings_manager, in any order and from any
\* number of threads, concurrent first calls included, returns the same
\* instance, and at most one instance is ever constructed.
C13_Singleton ==
    /\ g_built <= 1
    /\ \A t, u \in Threads :
          \A i \in 1..Len(g_ret[t]), j \in 1..Len(g_ret[u]) : g_ret[t][i] = g_ret[u][j]

\* --------------------------------------- settings manager: sequences of calls

\* Most calls in one sequence, and most saves that fail in it.
MaxSequence == 3
MaxFailedSaves == 1

CallSections == {"Export", ""}
CallKeys == {"theme", "Theme", "font", ""}
CallValues == {" 1", "Yes", "12", "1.5", "50%%", "%(theme)s", "50%"}
Defaults == {None, RetBool(TRUE)}
ValueTypes == {"str", "bool", "int", "float"}

InitCalls ==
    /\ now = DateTime(2024, 3, 1, 9)
    /\ IdleSettings
    /\ IdleCalls
    /\ IdleThreads /\ IdleSingleton /\ IdleStatus /\ IdleHistory
    /\ IdleAnalytics /\ IdleTrend /\ IdleTable /\ IdleArchive

\* A call is one more of the sequence; what it leaves alone besides the
\* configuration and the file.
CallFrame ==
    /\ al_count' = al_count + 1
    /\ UNCHANGED <<now, analyticsVars, trendVars, tableVars, archiveVars,
                   s_temp, s_step, s_prev, s_new,
                   threadVars, singletonVars, statusVars, historyVars>>

\* _save_unlocked going through: the file holds the configuration.
saved(config) == OnDisk(config_write(config))

\* _save_unlocked as one step: it goes through and returns True, or one of
\* its steps raises, the file stays as it was, no temp file is left and it
\* returns False.
_save_unlocked(config, file, goes_through) ==
    IF goes_through THEN [file |-> saved(config), ret |-> TRUE]
    ELSE [file |-> file, ret |-> FALSE]

\* set(section, key, value): the value is stored and, if that went well,
\* the settings are saved; set returns what the save returns.
CallSet ==
    /\ al_count < MaxSequence
    /\ \E section \in CallSections, key \in CallKeys, value \in CallValues,
       goes_through \in BOOLEAN :
        LET r == set(s_config, section, key, value)
            w == _save_unlocked(r.config, s_file, goes_through)
        IN  /\ goes_through \/ (r.ret /\ s_failed < MaxFailedSaves)
            /\ s_failed' = IF goes_through THEN s_failed ELSE s_failed + 1
            /\ s_config' = r.config
            /\ s_file' = IF r.ret THEN w.file ELSE s_file
            /\ s_ret' = IF r.ret THEN (IF w.ret THEN "True" ELSE "False") ELSE "none"
            /\ al_call' = [op |-> "set", section |-> section, key |-> key,
                           value |-> value]
            /\ al_ret' = RetBool(IF r.ret THEN w.ret ELSE FALSE)
            /\ al_before' = [config |-> s_config, file |-> s_file]
            /\ CallFrame

\* delete(section, key) and delete(section): the key or the section is
\* removed if it is there, and the settings are saved; delete returns what
\* the save returns.
CallDelete ==
    /\ al_count < MaxSequence
    /\ \E section \in CallSections, key \in {None} \cup {Key(k) : k \in CallKeys},
       goes_through \in BOOLEAN :
        LET r == delete(s_config, section, key)
            w == _save_unlocked(r.config, s_file, goes_through)
        IN  /\ goes_through \/ (r.ret /\ s_failed < MaxFailedSaves)
            /\ s_failed' = IF goes_through THEN s_failed ELSE s_failed + 1
            /\ s_config' = r.config
            /\ s_file' = IF r.ret THEN w.file ELSE s_file
            /\ s_ret' = IF r.ret THEN (IF w.ret THEN "True" ELSE "False") ELSE "none"
            /\ al_call' = [op |-> "delete", section |-> section,
                           optional_key |-> key]
            /\ al_ret' = RetBool(IF r.ret THEN w.ret ELSE FALSE)
            /\ al_before' = [config |-> s_config, file |-> s_file]
            /\ CallFrame

\* get(section, key, default, value_type)
CallGet ==
    /\ al_count < MaxSequence
    /\ \E section \in CallSections, key \in CallKeys, default \in Defaults,
       value_type \in ValueTypes :
        /\ al_call' = [op |-> "get", section |-> section, key |-> key,
                       default |-> default, value_type |-> value_type]
        /\ al_ret' = get(s_config, section, key, default, value_type)
        /\ al_before' = [config |-> s_config, file |-> s_file]
        /\ UNCHANGED <<s_config, s_file, s_ret, s_failed>>
        /\ CallFrame

\* has_key(section, key)
CallHasKey ==
    /\ al_count < MaxSequence
    /\ \E section \in CallSections, key \in CallKeys :
        /\ al_call' = [op |-> "has_key", section |-> section, key |-> key]
        /\ al_ret' = RetBool(has_key(s_config, section, key))
        /\ al_before' = [config |-> s_config, file |-> s_file]
        /\ UNCHANGED <<s_config, s_file, s_ret, s_failed>>
        /\ CallFrame

NextCalls == CallSet \/ CallDelete \/ CallGet \/ CallHasKey

SpecCalls == InitCalls /\ [][NextCalls]_vars

\* --------------------------------------------- claims on the settings calls

\* An option name as the configuration keeps it: in lower case.
KeyFold(key) == IF key = "Theme" THEN "theme" ELSE key

\* The texts stored under a key of a section (none, or one).
StoredTexts(config, section, key) ==
    { config[i].options[j].value :
        <<i, j>> \in { <<i, j>> \in (1..Len(config)) \X (1..2) :
                         /\ config[i].name = section
                         /\ j <= Len(config[i].options)
                         /\ config[i].options[j].key = KeyFold(key) } }

\* The texts int() and float() accept, with their values, and the texts that
\* count as true.
IntTexts == {"1", "2", "12"}
IntValue(text) == IF text = "1" THEN 1 ELSE IF text = "2" THEN 2 ELSE 12
FloatTexts == IntTexts \cup {"1.5"}
FloatValue(text) == IF text = "1.5" THEN <<3, 2>> ELSE <<IntValue(text), 1>>
TrueTexts == {"true", "1", "yes", "on", "Yes"}

\* What get is to return for a text found, by type; the default if the text
\* does not convert.
Converted(text, value_type, default) ==
    IF value_type = "bool" THEN [bool |-> text \in TrueTexts]
    ELSE IF value_type = "int"
    THEN (IF text \in IntTexts THEN [int |-> IntValue(text)] ELSE default)
    ELSE IF value_type = "float"
    THEN (IF text \in FloatTexts THEN [float |-> FloatValue(text)] ELSE default)
    ELSE [str |-> text]

\* The last call was a get and changed nothing.
GetChangedNothing ==
    /\ s_config = al_before.config
    /\ s_file = al_before.file

\* C14: get returns the default when the section or the key is
\* missing or the stored text does not convert to the requested int or
\* float; for bool it returns True exactly when the stored text is, case
\* apart, one of 'true', '1', 'yes', 'on'; it changes neither the settings
\* in memory nor the file.
C14_GetByStoredText ==
    al_call.op = "get" =>
        /\ GetChangedNothing
        /\ LET texts == StoredTexts(s_config, al_call.section, al_call.key)
           IN  IF texts = {} THEN al_ret = al_call.default
               ELSE LET text == CHOOSE t \in texts : TRUE
                    IN  /\ al_call.value_type = "bool" =>
                              ((al_ret = [bool |-> TRUE]) <=> (text \in TrueTexts))
                        /\ al_call.value_type \in {"int", "float"} =>
                              al_ret = Converted(text, al_call.value_type,
                                                 al_call.default)

\* str(value).strip() on the sampled values.
Stripped(value) == IF value = " 1" THEN "1" ELSE value

\* C15: after set(section, key, value) returns True, has_key(section, key)
\* is true and get(section, key) returns str(value) stripped; after
\* delete(section, key) has_key is false and get returns the default;
\* delete of a missing key or section returns True (its save going
\* through) and changes nothing in memory; set with an empty section or key
\* returns False and leaves the settings in memory and the file unchanged.
C15_SetDeleteAlgebra ==
    /\ (al_call.op = "set" /\ al_ret = [bool |-> TRUE]) =>
          /\ has_key(s_config, al_call.section, al_call.key)
          /\ get(s_config, al_call.section, al_call.key, None, "str")
                = [str |-> Stripped(al_call.value)]
    /\ (al_call.op = "delete" /\ al_call.optional_key # None) =>
          /\ ~has_key(s_config, al_call.section, al_call.optional_key.key)
          /\ get(s_config, al_call.section, al_call.optional_key.key, None, "str") = None
    /\ (al_call.op = "delete"
          /\ (StoredTexts(al_before.config, al_call.section, "theme") = {}
              /\ StoredTexts(al_before.config, al_call.section, "font") = {})) =>
          /\ s_ret = "True" => al_ret = [bool |-> TRUE]
          /\ al_call.optional_key # None => s_config = al_before.config
    /\ (al_call.op = "set" /\ (al_call.section = "" \/ al_call.key = "")) =>
          /\ al_ret = [bool |-> FALSE]
          /\ s_config = al_before.config
          /\ s_file = al_before.file

\* ---------------------------------------------------- description history
\*
\* DescriptionHistory over its JSON file.  dh_file is the file: missing,
\* unreadable (open raises an OSError), bytes that are not UTF-8, a text that
\* is not JSON, a JSON array, number or null, a JSON object without the key
\* 'descriptions', or a JSON object with it.  dh_descriptions is
\* self.descriptions: [list |-> ...] for a list, [json |-> ...] for what
\* else the file may hold under the key.  dh_state tells whether the object
\* was built; dh_out is the latest call with the exception it raised.  The
\* object reads its limits from the settings manager that
\* get_settings_manager() returns (s_config over s_file, built on first use).

\* The defaults of the settings max_descriptions and max_suggestions.
DefaultMaxDescriptions == 50
DefaultMaxSuggestions == 5

\* Most uses counted in the history in one run.
MaxUses == 3

List(s) == [list |-> s]
IsList(v) == "list" \in DOMAIN v

Entry(text, count, last_used, last_amount) ==
    [text |-> text, count |-> count, last_used |-> last_used, last_amount |-> last_amount]

\* datetime.now().strftime('%Y-%m-%d')
strftime_Y_m_d(dt) == DateStr(dt.year, dt.month, dt.day)

\* The order of two 'YYYY-MM-DD' strings.
DateStrKey(ds) == ds.Y * 10000 + ds.M * 100 + ds.D

\* str.startswith on the sampled descriptions and prefixes, in lower case.
startswith(text, prefix) ==
    \/ prefix = ""
    \/ prefix = text
    \/ prefix = "re" /\ text = "rent"
    \/ prefix = "f" /\ text = "food"

\* DescriptionHistory.load: self.descriptions after it, and the exception
\* that leaves it.
load_history(file, descriptions) ==
    IF file.kind = "missing"
    THEN [descriptions |-> List(<<>>), raised |-> "none"]
    ELSE IF file.kind = "unreadable"
    THEN [descriptions |-> List(<<>>), raised |-> "none"]
    ELSE IF file.kind = "invalid_utf8"
    THEN [descriptions |-> descriptions, raised |-> "UnicodeDecodeError"]
    ELSE IF file.kind = "invalid_json"
    THEN [descriptions |-> List(<<>>), raised |-> "none"]
    ELSE IF file.kind \in {"array", "number", "null"}
    THEN [descriptions |-> descriptions, raised |-> "AttributeError"]
    ELSE IF file.kind = "object_without_descriptions"
    THEN [descriptions |-> List(<<>>), raised |-> "none"]
    ELSE [descriptions |-> file.descriptions, raised |-> "none"]

\* The entry comes before the other: more used, or as much and used later.
ComesBefore(a, b) ==
    \/ a.count > b.count
    \/ a.count = b.count /\ DateStrKey(a.last_used) > DateStrKey(b.last_used)

RECURSIVE InsertDescription(_, _)
InsertDescription(s, x) ==
    IF s = <<>> THEN <<x>>
    ELSE IF ComesBefore(x, Head(s)) THEN <<x>> \o s
    ELSE <<Head(s)>> \o InsertDescription(Tail(s), x)

\* The two sorts of add_or_update: by count, most used first, and among
\* equal counts by last_used, latest first; equal entries keep their order.
RECURSIVE SortDescriptions(_)
SortDescriptions(s) ==
    IF s = <<>> THEN <<>>
    ELSE InsertDescription(SortDescriptions(SubSeq(s, 1, Len(s) - 1)), s[Len(s)])

\* self.descriptions[:n]
Truncate(s, n) == SubSeq(s, 1, IF Len(s) < n THEN Len(s) ELSE n)

\* The first entry whose text is the description, case apart (0 if none).
Existing(s, normalized) ==
    LET found == { i \in 1..Len(s) : str_lower(s[i].text) = str_lower(normalized) }
    IN  IF found = {} THEN 0 ELSE CHOOSE i \in found : \A j \in found : i <= j

\* get_settings_manager() as one step: the module's instance, the number of
\* managers built and the configuration of the instance, after it.  A
\* manager that is built loads the settings file.
get_settings_manager(instance, built, config, file) ==
    IF instance = 0
    THEN [instance |-> built + 1, built |-> built + 1, config |-> load(<<>>, file)]
    ELSE [instance |-> instance, built |-> built, config |-> config]

\* self.settings.get('AutoComplete', key, default, value_type=int)
autocomplete_setting(settings, key, default) ==
    get(settings, "AutoComplete", key, RetInt(default), "int").int

\* DescriptionHistory.add_or_update, up to the save: self.descriptions
\* after it, whether it comes to save, and the exception that leaves it.
add_or_update(descriptions, description, amount, today, settings) ==
    LET normalized == strip(description)
        max_descriptions ==
            autocomplete_setting(settings, "max_descriptions", DefaultMaxDescriptions)
    IN
    IF normalized = ""
    THEN [descriptions |-> descriptions, saves |-> FALSE, raised |-> "none"]
    ELSE IF ~IsList(descriptions)
    THEN [descriptions |-> descriptions, saves |-> FALSE, raised |-> "TypeError"]
    ELSE LET s == descriptions.list
             i == Existing(s, normalized)
             updated ==
                 IF i # 0
                 THEN [s EXCEPT ![i] = Entry(s[i].text, s[i].count + 1, today, amount)]
                 ELSE Append(s, Entry(normalized, 1, today, amount))
         IN  [descriptions |-> List(Truncate(SortDescriptions(updated), max_descriptions)),
              saves |-> TRUE, raised |-> "none"]

\* DescriptionHistory.get_suggestions: the list returned, or the exception.
get_suggestions(descriptions, partial_text, optional_limit, settings) ==
    LET limit == IF optional_limit = None
                 THEN autocomplete_setting(settings, "max_suggestions",
                                           DefaultMaxSuggestions)
                 ELSE optional_limit.int
    IN  IF ~IsList(descriptions)
        THEN [result |-> List(<<>>), raised |-> "TypeError"]
        ELSE IF partial_text = ""
        THEN [result |-> List(Truncate(descriptions.list, limit)), raised |-> "none"]
        ELSE LET partial_lower == strip(str_lower(partial_text))
                 Matches(d) == startswith(str_lower(d.text), partial_lower)
             IN  [result |-> List(Truncate(SelectSeq(descriptions.list, Matches), limit)),
                  raised |-> "none"]

\* What a save may come to: the file is written; open(file_path, 'w')
\* raises and the file stays as it was; or the file is opened, which
\* empties it, and the write raises, which leaves a text that is not JSON.
\* save swallows the IOError either way.
SaveOutcomes == {"written", "open_fails", "write_fails"}

\* DescriptionHistory.save: the file after it.
save_history(descriptions, file, outcome) ==
    IF outcome = "written" THEN [kind |-> "object", descriptions |-> descriptions]
    ELSE IF outcome = "open_fails" THEN file
    ELSE [kind |-> "invalid_json"]

\* DescriptionHistory.clear_history: self.descriptions and the file after it.
clear_history(file, outcome) ==
    [descriptions |-> List(<<>>), file |-> save_history(List(<<>>), file, outcome)]

\* What the file may hold under 'descriptions'.
StoredDescriptions ==
    { List(<<>>),
      List(<<Entry("rent", 2, DateStr(2024, 2, 25), 5)>>),
      List(<<Entry("food", 1, DateStr(2024, 3, 1), 5), Entry("Rent", 1, DateStr(2024, 2, 25), 5)>>),
      [json |-> "null"],
      [json |-> "number"] }

HistoryFiles ==
    { [kind |-> k] : k \in {"missing", "unreadable", "invalid_utf8", "invalid_json",
                            "array", "number", "null", "object_without_descriptions"} }
    \cup { [kind |-> "object", descriptions |-> v] : v \in StoredDescriptions }

Descriptions == {"rent", " Rent ", "food", " "}
PartialTexts == {"", "RE ", "f", " "}
Limits == {None, RetInt(1)}

\* The settings files: none, and one that sets the two limits.
AutoCompleteSettings ==
    <<[name |-> "AutoComplete",
       options |-> <<[key |-> "max_descriptions", value |-> "2"],
                     [key |-> "max_suggestions", value |-> "1"]>>]>>
SettingsFiles == {Absent, OnDisk(config_write(AutoCompleteSettings))}

\* No history object yet, over any of the history files and settings files;
\* the settings manager is built already (by another part of the program)
\* or not.
InitHistory ==
    /\ now = DateTime(2024, 3, 1, 9)
    /\ dh_file \in HistoryFiles
    /\ dh_descriptions = List(<<>>)
    /\ dh_state = "none"
    /\ dh_out = [call |-> "none", raised |-> "none"]
    /\ s_file \in SettingsFiles
    /\ \E built \in BOOLEAN :
          /\ g_instance = IF built THEN 1 ELSE 0
          /\ g_built = IF built THEN 1 ELSE 0
          /\ s_config = IF built THEN load(<<>>, s_file) ELSE <<>>
    /\ g_pc = [t \in Threads |-> "idle"]
    /\ g_new = [t \in Threads |-> 0]
    /\ g_ret = [t \in Threads |-> <<>>]
    /\ s_temp = Absent /\ s_step = "none" /\ s_ret = "none"
    /\ s_prev = Absent /\ s_new = <<>> /\ s_failed = 0
    /\ IdleCalls /\ IdleThreads /\ IdleStatus
    /\ IdleAnalytics /\ IdleTrend /\ IdleTable /\ IdleArchive

\* What a step of the description history leaves alone.
HistoryFrame ==
    UNCHANGED <<now, analyticsVars, trendVars, tableVars, archiveVars,
                s_file, s_temp, s_step, s_ret, s_prev, s_new, s_failed,
                g_pc, g_new, g_ret, callVars, threadVars, statusVars>>

\* DescriptionHistory(file_path): self.descriptions = [],
\* self.settings = get_settings_manager() and self.load().
NewDescriptionHistory ==
    /\ dh_state = "none"
    /\ LET settings == get_settings_manager(g_instance, g_built, s_config, s_file)
           r == load_history(dh_file, List(<<>>))
       IN  /\ g_instance' = settings.instance
           /\ g_built' = settings.built
           /\ s_config' = settings.config
           /\ dh_descriptions' = r.descriptions
           /\ dh_state' = IF r.raised = "none" THEN "loaded" ELSE "raised"
           /\ dh_out' = [call |-> "load", raised |-> r.raised]
    /\ UNCHANGED dh_file
    /\ HistoryFrame

\* load(), called again on the object.
Load ==
    /\ dh_state = "loaded"
    /\ LET r == load_history(dh_file, dh_descriptions)
       IN  /\ dh_descriptions' = r.descriptions
           /\ dh_out' = [call |-> "load", raised |-> r.raised]
    /\ UNCHANGED <<dh_file, dh_state, s_config, g_instance, g_built>>
    /\ HistoryFrame

\* save()
Save ==
    /\ dh_state = "loaded"
    /\ \E outcome \in SaveOutcomes :
          dh_file' = save_history(dh_descriptions, dh_file, outcome)
    /\ dh_out' = [call |-> "save", raised |-> "none"]
    /\ UNCHANGED <<dh_descriptions, dh_state, s_config, g_instance, g_built>>
    /\ HistoryFrame

\* clear_history()
ClearHistory ==
    /\ dh_state = "loaded"
    /\ \E outcome \in SaveOutcomes :
          LET r == clear_history(dh_file, outcome)
          IN  /\ dh_descriptions' = r.descriptions
              /\ dh_file' = r.file
    /\ dh_out' = [call |-> "clear_history", raised |-> "none"]
    /\ UNCHANGED <<dh_state, s_config, g_instance, g_built>>
    /\ HistoryFrame

\* The uses counted in a history.
RECURSIVE Uses(_)
Uses(s) == IF s = <<>> THEN 0 ELSE Head(s).count + Uses(Tail(s))

\* add_or_update(description, amount), with what its save comes to.
AddOrUpdate ==
    /\ dh_state = "loaded"
    /\ IsList(dh_descriptions) => Uses(dh_descriptions.list) < MaxUses
    /\ \E description \in Descriptions, outcome \in SaveOutcomes :
          LET r == add_or_update(dh_descriptions, description, 5,
                                 strftime_Y_m_d(now), s_config)
          IN  /\ dh_descriptions' = r.descriptions
              /\ dh_file' = IF r.saves
                            THEN save_history(r.descriptions, dh_file, outcome)
                            ELSE dh_file
              /\ dh_out' = [call |-> "add_or_update", raised |-> r.raised]
    /\ UNCHANGED <<dh_state, s_config, g_instance, g_built>>
    /\ HistoryFrame

\* get_suggestions(partial_text, limit).
GetSuggestions ==
    /\ dh_state = "loaded"
    /\ \E partial_text \in PartialTexts, limit \in Limits :
          LET r == get_suggestions(dh_descriptions, partial_text, limit, s_config)
          IN  dh_out' = [call |-> "get_suggestions", raised |-> r.raised,
                         result |-> r.result]
    /\ UNCHANGED <<dh_file, dh_descriptions, dh_state, s_config, g_instance, g_built>>
    /\ HistoryFrame

NextHistory ==
    \/ NewDescriptionHistory \/ Load \/ Save \/ ClearHistory
    \/ AddOrUpdate \/ GetSuggestions

SpecHistory == InitHistory /\ [][NextHistory]_vars

\* ------------------------------------------ claims on description history

\* The file is not a JSON object with a list under 'descriptions'.
NoHistoryInFile ==
    ~(dh_file.kind = "object" /\ IsList(dh_file.descriptions))

\* C18: load never fails: with the file missing, unreadable or corrupted
\* (not JSON, or JSON that is not an object with a 'descriptions' list) the
\* history starts as an empty list, and add_or_update and get_suggestions
\* raise nothing afterwards.
C18_LoadNeverFails ==
    /\ dh_state # "raised"
    /\ dh_out.raised = "none"
    /\ (dh_out.call = "load" /\ NoHistoryInFile) => dh_descriptions = List(<<>>)

====
